---- MODULE Spec2Model ----
(***************************************************************************)
(* Debug Intelligence core of cosmic-fountain: the priority scheduler      *)
(* (processing-scheduler), the budget-gated gateway (claude-interface),    *)
(* the server verbs that drive them and the permanent solution cache       *)
(* (intelligence-cache).                                                   *)
(*                                                                         *)
(* Money is counted in micro-dollars (0.05 USD = 50000), so the sums the   *)
(* code forms in IEEE doubles are exact integers here; the inputs of the   *)
(* model stay away from the sums where double rounding would change a      *)
(* comparison.  Strings the code inspects character by character (error    *)
(* messages, repository names, keywords) are sequences of one-character    *)
(* strings.                                                                *)
(***************************************************************************)
EXTENDS Integers, Sequences, FiniteSets, Bags, TLC

VARIABLES
    today,          \* day number of the wall clock; weekday = today % 7, 0 = Sunday
    clock,          \* millisecond reading of Date.now(), strictly increasing
    errorQueue,     \* StrategicProcessingScheduler.errorQueue: Map entries in insertion order
    objs,           \* every QueuedError object ever allocated, by allocation number
    task,           \* the running invocation of each timer callback
    resolved,       \* history: objects whose batch was processed successfully
    dropped,        \* history: objects the failure handler did not put back
    dispatched,     \* history: how often each object was handed to processBatchWithClaude
    lastSelect,     \* history: the batch the last step selected and what it left queued
    lastFailure,    \* history: the failed batch the last step finished handling
    spentToday,     \* history: estimated cost of everything dispatched today
    usageLog,       \* UsageTracker.usageLog, as a bag of usage records
    usageFile,      \* the content of usage-log.json (empty while it does not exist)
    recorded,       \* history: every usage record recordUsage was ever given
    call,           \* the analyze_error_patterns requests in progress
    repaid,         \* history: pattern ids a gateway result introduced while already cached
    lastResult,     \* history: the result the last analyze_error_patterns call returned
    solutionCache,  \* ErrorIntelligenceCache.solutionCache
    disk,           \* the files of the error-intelligence-cache directory
    feedbacks,      \* history: number of effectiveness updates applied so far
    signatureCache, \* LocalPatternEngine.signatureCache: the memo of match results
    reply,          \* history: the arguments and the answer of the last capture_error_context
    io              \* the cache's file operations in flight: writes issued, files left to load

schedVars == <<clock, errorQueue, objs, task, resolved, dropped, dispatched,
               lastSelect, lastFailure, spentToday>>
gatewayVars == <<usageLog, usageFile, recorded, call, repaid, lastResult>>
cacheVars == <<solutionCache, disk, feedbacks>>
serverVars == <<signatureCache, reply, io>>
vars == <<today, schedVars, gatewayVars, cacheVars, serverVars>>

None == "none"

\* ------------------------------------------------------------------ bounds
MaxItems == 3
MaxDay == 1
MaxBurstItems == 12
MaxCalls == 2
MaxUsage == 2
MaxFeedback == 3
MaxLedger == 3
MaxCaptured == 3
BatchLen == 13
MaxInFlight == 2
CleanupDay == 100
WeekItems == 2

\* ------------------------------------------------------------ text helpers
LowerChar(c) ==
    CASE c = "A" -> "a" [] c = "B" -> "b" [] c = "C" -> "c" [] c = "D" -> "d" [] c = "E" -> "e" [] c = "F" -> "f"
      [] c = "G" -> "g" [] c = "H" -> "h" [] c = "I" -> "i" [] c = "J" -> "j" [] c = "K" -> "k" [] c = "L" -> "l"
      [] c = "M" -> "m" [] c = "N" -> "n" [] c = "O" -> "o" [] c = "P" -> "p" [] c = "Q" -> "q" [] c = "R" -> "r"
      [] c = "S" -> "s" [] c = "T" -> "t" [] c = "U" -> "u" [] c = "V" -> "v" [] c = "W" -> "w" [] c = "X" -> "x"
      [] c = "Y" -> "y" [] c = "Z" -> "z"
      [] OTHER -> c

ToLowerCase(s) == [i \in 1..Len(s) |-> LowerChar(s[i])]

Includes(s, kw) ==
    \E i \in 1..(Len(s) - Len(kw) + 1) : SubSeq(s, i, i + Len(kw) - 1) = kw

Min(a, b) == IF a <= b THEN a ELSE b
Max(a, b) == IF a >= b THEN a ELSE b

SeqToSet(s) == {s[i] : i \in 1..Len(s)}

\* Array.prototype.reduce((sum, x) => sum + cost[x], 0) over a list of keys.
RECURSIVE SumOver(_, _)
SumOver(s, cost) == IF s = <<>> THEN 0 ELSE cost[Head(s)] + SumOver(Tail(s), cost)

\* Array.prototype.sort is stable: an element moves ahead of another only when
\* the comparator is negative.  key[a] < key[b] stands for compare(a, b) < 0.
RECURSIVE InsertSorted(_, _, _)
InsertSorted(x, s, key) ==
    IF s = <<>> THEN <<x>>
    ELSE IF key[x] < key[Head(s)] THEN <<x>> \o s
    ELSE <<Head(s)>> \o InsertSorted(x, Tail(s), key)

RECURSIVE StableSort(_, _)
StableSort(s, key) ==
    IF s = <<>> THEN <<>>
    ELSE InsertSorted(s[Len(s)], StableSort(SubSeq(s, 1, Len(s) - 1), key), key)

Slice(s, n) == SubSeq(s, 1, Min(n, Len(s)))

\* --------------------------------------------------------------- keywords
KwProduction == <<"p","r","o","d","u","c","t","i","o","n">>
KwPermissionDenied == <<"p","e","r","m","i","s","s","i","o","n"," ","d","e","n","i","e","d">>
KwUnauthorized == <<"u","n","a","u","t","h","o","r","i","z","e","d">>
KwAuthentication == <<"a","u","t","h","e","n","t","i","c","a","t","i","o","n">>
KwSecurity == <<"s","e","c","u","r","i","t","y">>
KwBuild == <<"b","u","i","l","d">>
KwCompilation == <<"c","o","m","p","i","l","a","t","i","o","n">>
KwApi == <<"a","p","i">>
KwHttp == <<"h","t","t","p">>
KwRequest == <<"r","e","q","u","e","s","t">>
KwTest == <<"t","e","s","t">>
KwDocker == <<"d","o","c","k","e","r">>
KwNetwork == <<"n","e","t","w","o","r","k">>
KwDatabase == <<"d","a","t","a","b","a","s","e">>
KwAuth == <<"a","u","t","h">>

\* ------------------------------------------------------- error contexts
\* An error context as the scheduler reads it: the message and repository
\* text, the length of stack_trace (0: none given) and whether it mentions
\* "test", environment_info.environment, the number of keys of
\* environment_info (0: none given) and the length of its JSON text.
RepoCosmic == <<"c","o","s","m","i","c","-","f","o","u","n","t","a","i","n">>

ErrorContext(msg, stackLen, stackTest, env, envKeys, envChars) ==
    [error_message |-> msg, repo_context |-> RepoCosmic, stack_len |-> stackLen,
     stack_has_test |-> stackTest, environment |-> env, env_keys |-> envKeys,
     env_chars |-> envChars]

CtxDocker == ErrorContext(<<"d","o","c","k","e","r"," ","d","a","e","m","o","n"," ","d","o","w","n">>, 0, FALSE, None, 0, 2)
CtxOutage == ErrorContext(<<"P","r","o","d","u","c","t","i","o","n"," ","o","u","t","a","g","e">>, 0, FALSE, None, 0, 2)
CtxDown == ErrorContext(<<"P","r","o","d","u","c","t","i","o","n"," ","d","o","w","n">>, 0, FALSE, None, 0, 2)
CtxUnauth == ErrorContext(<<"u","n","a","u","t","h","o","r","i","z","e","d"," ","A","P","I"," ","c","a","l","l">>, 1200, FALSE, None, 0, 2)
CtxTest == ErrorContext(<<"t","e","s","t"," ","t","i","m","e","o","u","t">>, 0, FALSE, "development", 2, 60)
CtxBuild == ErrorContext(<<"B","u","i","l","d"," ","f","a","i","l","e","d">>, 0, FALSE, None, 6, 180)

Catalogue == {CtxDocker, CtxOutage, CtxUnauth, CtxTest}

\* A burst of distinct API errors with long stack traces and rich environments.
CtxApiErr(n) ==
    ErrorContext(<<"a","p","i"," ","e","r","r"," ">> \o <<ToString(n)>>, 1200, FALSE, None, 6, 180)

BurstCatalogue == {CtxApiErr(n) : n \in 1..6}

\* ---------------------------------------------------- scheduler: helpers
priorityWeights == [critical |-> 100, high |-> 75, medium |-> 50, low |-> 25]

dailyBudgetLimit == 830000

isProductionError(ctx) ==
    \/ ctx.environment = "production"
    \/ Includes(ToLowerCase(ctx.error_message), KwProduction)

isSecurityError(ctx) ==
    \E kw \in {KwPermissionDenied, KwUnauthorized, KwAuthentication, KwSecurity} :
        Includes(ToLowerCase(ctx.error_message), kw)

isBuildError(ctx) ==
    \/ Includes(ToLowerCase(ctx.error_message), KwBuild)
    \/ Includes(ToLowerCase(ctx.error_message), KwCompilation)

isAPIError(ctx) ==
    \/ Includes(ToLowerCase(ctx.error_message), KwApi)
    \/ Includes(ToLowerCase(ctx.error_message), KwHttp)
    \/ Includes(ToLowerCase(ctx.error_message), KwRequest)

isDevelopmentError(ctx) == ctx.environment = "development"

isTestError(ctx) ==
    \/ Includes(ToLowerCase(ctx.error_message), KwTest)
    \/ ctx.stack_has_test

determinePriority(ctx) ==
    IF isProductionError(ctx) \/ isSecurityError(ctx) THEN "critical"
    ELSE IF isBuildError(ctx) \/ isAPIError(ctx) THEN "high"
    ELSE IF isDevelopmentError(ctx) \/ isTestError(ctx) THEN "medium"
    ELSE "low"

estimateProcessingCost(ctx) ==
    50000 + (IF ctx.stack_len > 1000 THEN 20000 ELSE 0)
          + (IF ctx.env_keys > 5 THEN 10000 ELSE 0)

\* Date.now() as its 13 decimal digits: a fixed epoch part, then the clock.
RECURSIVE Digits(_, _)
Digits(n, width) ==
    IF width = 0 THEN <<>> ELSE Digits(n \div 10, width - 1) \o <<ToString(n % 10)>>

NowDigits(t) == <<"1","7","6","2","3">> \o Digits(t, 8)

\* 'error_' + base64(content).substring(0, 12): twelve base64 characters are
\* exactly the first nine bytes of the content, so two contents get the same
\* id exactly when they agree on their first nine characters.
IdBytes == 9

generateErrorId(ctx, t) ==
    SubSeq(ctx.error_message \o <<"_">> \o ctx.repo_context \o <<"_">> \o NowDigits(t),
           1, IdBytes)

isWeekendError(e) == (e.queued_at.day % 7) \in {0, 6}

hasCrossRepoRelevance(e) ==
    \E kw \in {KwDocker, KwNetwork, KwDatabase, KwApi, KwAuth} :
        Includes(ToLowerCase(e.error_context.error_message), kw)

isHighImpact(e) == e.priority \in {"critical", "high"}

getCurrentDaySchedule(d) ==
    CASE d % 7 = 1 -> "monday"
      [] d % 7 = 3 -> "wednesday"
      [] d % 7 = 5 -> "friday"
      [] OTHER -> "daily"

calculateTodaySpending == 250000
getTodayCallCount == 5

checkDailyBudget ==
    LET remainingBudget == Max(0, dailyBudgetLimit - calculateTodaySpending)
    IN  [can_proceed |-> remainingBudget > 50000,
         remaining_budget |-> remainingBudget,
         calls_made_today |-> getTodayCallCount]

\* ---- the Map<string, QueuedError>: entries [key, ref] in insertion order
MapHas(q, k) == \E i \in 1..Len(q) : q[i].key = k

MapSet(q, k, r) ==
    IF MapHas(q, k)
    THEN [i \in 1..Len(q) |-> IF q[i].key = k THEN [key |-> k, ref |-> r] ELSE q[i]]
    ELSE Append(q, [key |-> k, ref |-> r])

MapDelete(q, k) == SelectSeq(q, LAMBDA e : e.key # k)

MapValues(q) == [i \in 1..Len(q) |-> q[i].ref]

Queued(o) == \E i \in 1..Len(errorQueue) : errorQueue[i].ref = o

CostOf(heap) == [o \in DOMAIN heap |-> heap[o].estimated_cost]

\* ------------------------------------------------- scheduler: operations
Timers == {"hourly", "lane"}

NoSelect == [window |-> None, batch |-> <<>>, left |-> {}]
NoFailure == [window |-> None, batch |-> <<>>, pre |-> <<>>]

Slots == 1..MaxCalls
IdleCall == [pc |-> "idle", depth |-> None, input |-> <<>>, batch |-> <<>>]
NoResult == [analysis_type |-> None, api_cost |-> 0, depth |-> None,
             limit_reached |-> FALSE, gateway_called |-> FALSE]

NoReply == [verb |-> None]

NoIo == [writes |-> {}, load |-> {}]

Idle == [pc |-> "idle", window |-> None, batch |-> <<>>, todo |-> <<>>,
         processedCost |-> 0, budget |-> 0]

\* a faulty calculateQueuePosition: only strictly higher priorities count
calculateQueuePositionAhead(q, heap, error) ==
    Cardinality({i \in 1..Len(q) :
                    priorityWeights[heap[q[i].ref].priority]
                        > priorityWeights[error.priority]})

\* queueForClaudeAnalysis: allocate the QueuedError and errorQueue.set(id, it).
calculateQueuePosition(q, heap, error) ==
    Cardinality({i \in 1..Len(q) :
                    priorityWeights[heap[q[i].ref].priority]
                        >= priorityWeights[error.priority]})

\* the QueuedError queueForClaudeAnalysis builds at clock reading now
QueuedErrorOf(ctx, now) ==
    [id |-> generateErrorId(ctx, now),
     error_context |-> ctx,
     priority |-> determinePriority(ctx),
     queued_at |-> [day |-> today, ms |-> now],
     estimated_cost |-> estimateProcessingCost(ctx),
     retry_count |-> 0]

\* a faulty queueForClaudeAnalysis: the QueuedError is built but never set
QueueSetForgetting(ctx, limit) ==
    /\ Len(objs) < limit
    /\ LET now == clock + 1
           queuedError == QueuedErrorOf(ctx, now)
       IN  /\ clock' = now
           /\ objs' = Append(objs, queuedError)
           /\ dispatched' = Append(dispatched, 0)
           /\ errorQueue' = errorQueue
    /\ lastSelect' = NoSelect
    /\ lastFailure' = NoFailure

\* the body of queueForClaudeAnalysis: what it does to the scheduler
QueueSet(ctx, limit) ==
    /\ Len(objs) < limit
    /\ LET now == clock + 1
           queuedError == QueuedErrorOf(ctx, now)
       IN  /\ clock' = now
           /\ objs' = Append(objs, queuedError)
           /\ dispatched' = Append(dispatched, 0)
           /\ errorQueue' = MapSet(errorQueue, queuedError.id, Len(objs) + 1)
    /\ lastSelect' = NoSelect
    /\ lastFailure' = NoFailure

\* queueForClaudeAnalysis called on its own
queueForClaudeAnalysis(ctx, limit) ==
    /\ QueueSet(ctx, limit)
    /\ UNCHANGED <<today, serverVars, task, resolved, dropped, spentToday,
                   gatewayVars, cacheVars>>

\* the for-loop of processWeekendErrorBatch: take every error that still fits
RECURSIVE Greedy(_, _, _, _)
Greedy(list, cost, total, budget) ==
    IF list = <<>> THEN <<>>
    ELSE IF total + cost[Head(list)] <= budget
         THEN <<Head(list)>> \o Greedy(Tail(list), cost, total + cost[Head(list)], budget)
         ELSE Greedy(Tail(list), cost, total, budget)

RECURSIVE DeleteAll(_, _, _)
DeleteAll(q, heap, batch) ==
    IF batch = <<>> THEN q
    ELSE DeleteAll(MapDelete(q, heap[Head(batch)].id), heap, Tail(batch))

\* the catch block's forEach, after retry_count++ has been applied in heap
RECURSIVE SetAll(_, _, _)
SetAll(q, heap, batch) ==
    IF batch = <<>> THEN q
    ELSE LET o == Head(batch)
             q1 == IF heap[o].retry_count < 3 THEN MapSet(q, heap[o].id, o) ELSE q
         IN  SetAll(q1, heap, Tail(batch))

\* processBatchWithClaude is entered with the batch: the step up to its await.
Dispatch(t, window, batch, todo, done, budget, q) ==
    /\ task' = [task EXCEPT ![t] = [pc |-> "await", window |-> window, batch |-> batch,
                                    todo |-> todo, processedCost |-> done,
                                    budget |-> budget]]
    /\ dispatched' = [o \in DOMAIN dispatched |->
                        IF o \in SeqToSet(batch) THEN dispatched[o] + 1 ELSE dispatched[o]]
    /\ spentToday' = spentToday + SumOver(batch, CostOf(objs))
    /\ lastSelect' = [window |-> window, batch |-> batch,
                      left |-> SeqToSet(MapValues(q)) \ SeqToSet(batch)]

processWeekendErrorBatch(remainingBudget) ==
    LET weekendErrors ==
            StableSort(SelectSeq(MapValues(errorQueue), LAMBDA o : isWeekendError(objs[o])),
                       [o \in DOMAIN objs |-> 0 - priorityWeights[objs[o].priority]])
        budgetForBatch == Min(remainingBudget, 400000)
        errorBatch == Greedy(weekendErrors, CostOf(objs), 0, budgetForBatch)
        q == DeleteAll(errorQueue, objs, errorBatch)
    IN  /\ errorBatch # <<>>
        /\ errorQueue' = q
        /\ Dispatch("hourly", "weekend_batch", errorBatch, <<>>, 0, budgetForBatch, q)
        /\ lastFailure' = NoFailure
        /\ UNCHANGED <<today, serverVars, clock, objs, resolved, dropped, gatewayVars, cacheVars>>

processCrossRepoAnalysis(remainingBudget) ==
    LET crossRepoErrors ==
            Slice(SelectSeq(MapValues(errorQueue), LAMBDA o : hasCrossRepoRelevance(objs[o])), 6)
    IN  /\ crossRepoErrors # <<>>
        /\ Dispatch("hourly", "cross_repo_analysis", crossRepoErrors, <<>>, 0,
                    remainingBudget, errorQueue)
        /\ lastFailure' = NoFailure
        /\ UNCHANGED <<today, serverVars, clock, errorQueue, objs, resolved, dropped,
                       gatewayVars, cacheVars>>

processWeeklySynthesis(remainingBudget) ==
    LET synthesisErrors ==
            Slice(SelectSeq(MapValues(errorQueue), LAMBDA o : isHighImpact(objs[o])), 5)
    IN  /\ synthesisErrors # <<>>
        /\ Dispatch("hourly", "weekly_synthesis", synthesisErrors, <<>>, 0,
                    remainingBudget, errorQueue)
        /\ lastFailure' = NoFailure
        /\ UNCHANGED <<today, serverVars, clock, errorQueue, objs, resolved, dropped,
                       gatewayVars, cacheVars>>

\* index of the next error of the critical loop that fits the budget, 0 if none
NextAffordable(todo, cost, done, budget) ==
    LET fits == {i \in 1..Len(todo) : done + cost[todo[i]] <= budget}
    IN  IF fits = {} THEN 0 ELSE CHOOSE i \in fits : \A j \in fits : i <= j

processCriticalErrors(t, remainingBudget) ==
    LET criticalErrors ==
            StableSort(SelectSeq(MapValues(errorQueue),
                              LAMBDA o : objs[o].priority = "critical"),
                       [o \in DOMAIN objs |-> objs[o].queued_at.ms])
        budgetForCritical == Min(remainingBudget, 100000)
        i == NextAffordable(criticalErrors, CostOf(objs), 0, budgetForCritical)
    IN  /\ i # 0
        /\ Dispatch(t, "critical_error", <<criticalErrors[i]>>,
                    SubSeq(criticalErrors, i + 1, Len(criticalErrors)), 0,
                    budgetForCritical, errorQueue)
        /\ lastFailure' = NoFailure
        /\ UNCHANGED <<today, serverVars, clock, errorQueue, objs, resolved, dropped,
                       gatewayVars, cacheVars>>

\* the hourly setInterval callback
processQueue ==
    /\ task["hourly"].pc = "idle"
    /\ checkDailyBudget.can_proceed
    /\ LET dayOfWeek == getCurrentDaySchedule(today)
           remaining == checkDailyBudget.remaining_budget
       IN  \/ dayOfWeek = "monday" /\ processWeekendErrorBatch(remaining)
           \/ dayOfWeek = "wednesday" /\ processCrossRepoAnalysis(remaining)
           \/ dayOfWeek = "friday" /\ processWeeklySynthesis(remaining)
           \/ dayOfWeek = "daily" /\ processCriticalErrors("hourly", remaining)

\* the 15-minute setInterval callback
startQueueProcessor ==
    /\ task["lane"].pc = "idle"
    /\ processCriticalErrors("lane", dailyBudgetLimit)

\* processBatchWithClaude returns (ok) or its catch block runs (~ok); then the
\* caller's code after the await: the deletes of the Wednesday, Friday and
\* critical processors, and the rest of the critical loop.
DeletesAfterAwait(window) ==
    window \in {"cross_repo_analysis", "weekly_synthesis", "critical_error"}

processBatchWithClaude(t, ok) ==
    LET tk == task[t]
        inBatch == SeqToSet(tk.batch)
        heap == IF ok THEN objs
                ELSE [o \in DOMAIN objs |->
                        IF o \in inBatch
                        THEN [objs[o] EXCEPT !.retry_count = @ + 1] ELSE objs[o]]
        q1 == IF ok THEN errorQueue ELSE SetAll(errorQueue, heap, tk.batch)
        q2 == IF DeletesAfterAwait(tk.window) THEN DeleteAll(q1, heap, tk.batch) ELSE q1
        done == tk.processedCost + SumOver(tk.batch, CostOf(objs))
        i == IF tk.window = "critical_error"
             THEN NextAffordable(tk.todo, CostOf(objs), done, tk.budget) ELSE 0
    IN  /\ tk.pc = "await"
        /\ objs' = heap
        /\ errorQueue' = q2
        /\ resolved' = IF ok THEN resolved \cup inBatch ELSE resolved
        /\ dropped' = IF ok THEN dropped
                      ELSE dropped \cup {o \in inBatch : heap[o].retry_count >= 3}
        /\ lastFailure' = IF ok THEN NoFailure
                          ELSE [window |-> tk.window, batch |-> tk.batch,
                                pre |-> [o \in inBatch |-> objs[o].retry_count]]
        /\ IF i # 0
           THEN Dispatch(t, "critical_error", <<tk.todo[i]>>,
                         SubSeq(tk.todo, i + 1, Len(tk.todo)), done, tk.budget, q2)
           ELSE /\ task' = [task EXCEPT ![t] = Idle]
                /\ lastSelect' = NoSelect
                /\ UNCHANGED <<dispatched, spentToday>>
        /\ UNCHANGED <<today, serverVars, clock, gatewayVars, cacheVars>>

BatchSucceeds(t) == processBatchWithClaude(t, TRUE)
BatchFails(t) == processBatchWithClaude(t, FALSE)

\* midnight
DayTick ==
    /\ today < MaxDay
    /\ today' = today + 1
    /\ spentToday' = 0
    /\ lastSelect' = NoSelect
    /\ lastFailure' = NoFailure
    /\ UNCHANGED <<serverVars, clock, errorQueue, objs, task, resolved, dropped, dispatched,
                   gatewayVars, cacheVars>>

InitIdle ==
    /\ clock = 0
    /\ errorQueue = <<>>
    /\ objs = <<>>
    /\ task = [t \in Timers |-> Idle]
    /\ resolved = {}
    /\ dropped = {}
    /\ dispatched = <<>>
    /\ lastSelect = NoSelect
    /\ lastFailure = NoFailure
    /\ spentToday = 0
    /\ usageLog = EmptyBag
    /\ usageFile = EmptyBag
    /\ recorded = EmptyBag
    /\ call = [s \in Slots |-> IdleCall]
    /\ repaid = {}
    /\ lastResult = NoResult
    /\ solutionCache = <<>>
    /\ disk = <<>>
    /\ feedbacks = 0
    /\ signatureCache = <<>>
    /\ reply = NoReply
    /\ io = NoIo

\* the process is started on a Sunday, a Wednesday or a Friday
StartDays == {0, 3, 5}

InitSched == today \in StartDays /\ InitIdle

NextSched ==
    \/ \E ctx \in Catalogue : queueForClaudeAnalysis(ctx, MaxItems)
    \/ processQueue
    \/ startQueueProcessor
    \/ \E t \in Timers : BatchSucceeds(t)
    \/ \E t \in Timers : BatchFails(t)
    \/ DayTick

SpecSched == InitSched /\ [][NextSched]_vars

\* A burst on a Wednesday: API errors arrive one after the other, numbered
\* cyclically, while the hourly timer keeps firing.
InitBurst == today = 3 /\ InitIdle

NextBurst ==
    \/ queueForClaudeAnalysis(CtxApiErr((Len(objs) % 6) + 1), MaxBurstItems)
    \/ processQueue
    \/ BatchSucceeds("hourly")
    \/ BatchFails("hourly")

SpecBurst == InitBurst /\ [][NextBurst]_vars

\* ------------------------------------------------------ scheduler: claims
Allocated == 1..Len(objs)

InFlightAt(t, o) == task[t].pc = "await" /\ o \in SeqToSet(task[t].batch)

InFlight(o) == \E t \in Timers : InFlightAt(t, o)

WeightOf(o) == priorityWeights[objs[o].priority]

\* C3: every error context accepted by enqueue is still queued, dispatched
\* (in flight or resolved), or dropped with retry_count = 3; nothing removes
\* an item in any other way.
C3_NoItemSilentlyLost ==
    \A o \in Allocated :
        \/ Queued(o)
        \/ InFlight(o)
        \/ o \in resolved
        \/ (o \in dropped /\ objs[o].retry_count = 3)

\* C5: when a dispatched batch fails, in every processing window each item
\* whose retry_count was below 2 is queued again with retry_count + 1, and an
\* item whose retry_count reaches 3 is absent from the queue and not in flight.
C5_FailedBatchRequeued ==
    lastFailure.window # None =>
        \A o \in SeqToSet(lastFailure.batch) :
            /\ lastFailure.pre[o] < 2 =>
                   (Queued(o) /\ objs[o].retry_count = lastFailure.pre[o] + 1)
            /\ objs[o].retry_count >= 3 => (~Queued(o) /\ ~InFlight(o))

\* C6: a drain never dispatches an item while an item of strictly higher
\* priority weight stays queued, and within what it dispatches the higher
\* weights come first (criticals before medium, medium before low).
C6_HigherPriorityFirst ==
    lastSelect.window # None =>
        /\ \A o \in SeqToSet(lastSelect.batch) : \A q \in lastSelect.left :
               WeightOf(q) <= WeightOf(o)
        /\ \A i, j \in 1..Len(lastSelect.batch) :
               i < j => WeightOf(lastSelect.batch[i]) >= WeightOf(lastSelect.batch[j])

EmergencyAllowance == 100000

C10_DailyDispatchWithinCeiling == spentToday <= dailyBudgetLimit + EmergencyAllowance

\* ------------------------------------------------------------ the cache
\* success_rate is a double in the code; here it is counted in millionths of
\* a percent, which keeps the 0.9-weighted average exact for six updates.
RateUnit == 1000 * 1000

Undefined == "undefined"
Null == "null"

\* A text or list that was left out: the value undefined.
Absent == <<Undefined>>

\* a fix_template as the external service may send it: a string, an array of
\* strings, or nothing
FixString(str) == [is_array |-> FALSE, items |-> <<str>>]
FixArray(items) == [is_array |-> TRUE, items |-> items]
FixAbsent == [is_array |-> FALSE, items |-> <<>>]

FixTruthy(fix) == fix.is_array \/ fix.items # <<>>

DiscoveredPattern(id, fix, confidence) ==
    [pattern_id |-> id, fix_template |-> fix, confidence |-> confidence]

\* the CachedSolution cacheAnalysisResults builds for one discovered pattern
NewCachedSolution(pattern, day) ==
    [pattern_id |-> pattern.pattern_id,
     solution_text |-> IF FixTruthy(pattern.fix_template) THEN pattern.fix_template
                       ELSE FixString("General debugging guidance"),
     confidence_score |-> IF pattern.confidence # 0 THEN pattern.confidence ELSE 70,
     success_rate |-> 85 * RateUnit,
     fix_templates |-> IF pattern.fix_template.is_array THEN pattern.fix_template.items
                       ELSE IF pattern.fix_template.items = <<>> THEN <<Undefined>>
                       ELSE pattern.fix_template.items,
     cached_date |-> day,
     usage_count |-> 0,
     last_accessed |-> day]

\* fs.writeJson then fs.readJson: JSON has no undefined, an array keeps the
\* slot as null
ToJson(solution) ==
    [solution EXCEPT !.fix_templates =
        [i \in 1..Len(@) |-> IF @[i] = Undefined THEN Null ELSE @[i]]]

MapPut(f, k, v) == [x \in DOMAIN f \cup {k} |-> IF x = k THEN v ELSE f[x]]

\* saveSolutionToFile: a failed write is caught and only logged
saveSolutionToFile(files, solution, writeOk) ==
    IF writeOk THEN MapPut(files, solution.pattern_id, ToJson(solution)) ELSE files

\* cacheSolution on the pair (memory, files)
cacheSolution(store, solution, writeOk) ==
    [memory |-> MapPut(store.memory, solution.pattern_id, solution),
     files |-> saveSolutionToFile(store.files, solution, writeOk)]

\* the hash of generatePatternId, taken to be free of collisions: the text of
\* the three fields it digests
ErrorIntelligenceCache_generatePatternId(pattern) ==
    "pattern_" \o pattern.type \o ":" \o pattern.message \o ":" \o pattern.context

NovelInsight(text, confidence, repos, steps) ==
    [insight |-> text, confidence |-> confidence, applicable_repos |-> repos,
     implementation_steps |-> steps]

\* the CachedSolution cacheAnalysisResults builds for one novel insight
NewInsightSolution(insight, day) ==
    [pattern_id |-> ErrorIntelligenceCache_generatePatternId(
                        [type |-> Undefined, message |-> insight.insight,
                         context |-> insight.applicable_repos]),
     solution_text |-> IF insight.insight # "" THEN FixString(insight.insight)
                       ELSE FixString("Novel debugging insight"),
     confidence_score |-> IF insight.confidence # 0 THEN insight.confidence ELSE 75,
     success_rate |-> 80 * RateUnit,
     fix_templates |-> insight.implementation_steps,
     cached_date |-> day,
     usage_count |-> 0,
     last_accessed |-> day]

\* the two loops of cacheAnalysisResults
RECURSIVE cachePatterns(_, _, _, _)
cachePatterns(store, patterns, day, writeOk) ==
    IF patterns = <<>> THEN store
    ELSE cachePatterns(
             cacheSolution(store, NewCachedSolution(Head(patterns), day), writeOk),
             Tail(patterns), day, writeOk)

RECURSIVE cacheInsights(_, _, _, _)
cacheInsights(store, insights, day, writeOk) ==
    IF insights = <<>> THEN store
    ELSE cacheInsights(
             cacheSolution(store, NewInsightSolution(Head(insights), day), writeOk),
             Tail(insights), day, writeOk)

AnalysisResult(patterns, insights) == [patterns |-> patterns, novel_insights |-> insights]

cacheAnalysisResults(store, analysisResult, day, writeOk) ==
    cacheInsights(cachePatterns(store, analysisResult.patterns, day, writeOk),
                  analysisResult.novel_insights, day, writeOk)

Cached(pid) == pid \in DOMAIN solutionCache

PatA == DiscoveredPattern("p1", FixString("do x"), 90)
PatB == DiscoveredPattern("p2", FixArray(<<"stop", "retry">>), 0)
PatC == DiscoveredPattern("p2", FixAbsent, 40)

DiscoveredPatterns == {PatA, PatB, PatC}
PatternIds == {p.pattern_id : p \in DiscoveredPatterns}

InsA == NovelInsight("cache dns", 97, "all", <<"step1">>)

\* put_batch: cacheAnalysisResults on an analysis result (update_taxonomy of a
\* pattern that is not cached, or the caching step of a gateway result)
CachePut(analysisResult, writeOk) ==
    /\ LET store == cacheAnalysisResults([memory |-> solutionCache, files |-> disk],
                                         analysisResult, today, writeOk)
       IN  solutionCache' = store.memory /\ disk' = store.files
    /\ UNCHANGED <<today, serverVars, feedbacks, schedVars, gatewayVars>>

\* what getCachedSolution does to the record it finds, and returns
AccessedSolution(cached, day) ==
    [cached EXCEPT !.usage_count = @ + 1, !.last_accessed = day]

\* a faulty getCachedSolution: the hit also refreshes the entry's defaults
getCachedSolutionRefreshing(pid, writeOk) ==
    /\ Cached(pid)
    /\ solutionCache[pid].usage_count < MaxUsage
    /\ LET cached == [AccessedSolution(solutionCache[pid], today)
                         EXCEPT !.success_rate = 85 * RateUnit]
       IN  /\ solutionCache' = [solutionCache EXCEPT ![pid] = cached]
           /\ disk' = saveSolutionToFile(disk, cached, writeOk)
    /\ UNCHANGED <<today, serverVars, feedbacks, schedVars, gatewayVars>>

\* getCachedSolution: a hit updates the record and saves it; a miss changes
\* no entry (the hit and miss counters are not part of this state)
getCachedSolution(pid, writeOk) ==
    IF Cached(pid)
    THEN /\ solutionCache[pid].usage_count < MaxUsage
         /\ LET cached == AccessedSolution(solutionCache[pid], today)
            IN  /\ solutionCache' = [solutionCache EXCEPT ![pid] = cached]
                /\ disk' = saveSolutionToFile(disk, cached, writeOk)
         /\ UNCHANGED <<today, serverVars, feedbacks, schedVars, gatewayVars>>
    ELSE UNCHANGED vars

\* a faulty updateSolutionEffectiveness: the outcome replaces the rate instead
\* of entering its weighted average
updateSolutionEffectivenessUnweighted(pid, wasSuccessful, writeOk) ==
    /\ Cached(pid)
    /\ feedbacks < MaxFeedback
    /\ LET old == solutionCache[pid]
           solution ==
               [old EXCEPT
                  !.success_rate = IF wasSuccessful THEN 100 * RateUnit ELSE 0,
                  !.confidence_score = IF wasSuccessful THEN Min(100, @ + 2)
                                       ELSE Max(50, @ - 5),
                  !.last_accessed = today]
       IN  /\ solutionCache' = [solutionCache EXCEPT ![pid] = solution]
           /\ disk' = saveSolutionToFile(disk, solution, writeOk)
    /\ feedbacks' = feedbacks + 1
    /\ UNCHANGED <<today, serverVars, schedVars, gatewayVars>>

updateSolutionEffectiveness(pid, wasSuccessful, writeOk) ==
    /\ Cached(pid)
    /\ feedbacks < MaxFeedback
    /\ LET old == solutionCache[pid]
           solution ==
               [old EXCEPT
                  !.success_rate = (@ * 9) \div 10
                                   + (IF wasSuccessful THEN 100 * RateUnit ELSE 0) \div 10,
                  !.confidence_score = IF wasSuccessful THEN Min(100, @ + 2)
                                       ELSE Max(50, @ - 5),
                  !.last_accessed = today]
       IN  /\ solutionCache' = [solutionCache EXCEPT ![pid] = solution]
           /\ disk' = saveSolutionToFile(disk, solution, writeOk)
    /\ feedbacks' = feedbacks + 1
    /\ UNCHANGED <<today, serverVars, schedVars, gatewayVars>>

\* initializeCache after a process restart: every file of the directory is
\* read back and keyed by the pattern_id it holds
initializeCache ==
    /\ solutionCache # disk
    /\ solutionCache' = [f \in DOMAIN disk |-> disk[f]]
    /\ UNCHANGED <<today, serverVars, disk, feedbacks, schedVars, gatewayVars>>

InitCache == today = 0 /\ InitIdle

NextCache ==
    \/ \E pattern \in DiscoveredPatterns, writeOk \in BOOLEAN :
           CachePut(AnalysisResult(<<pattern>>, <<>>), writeOk)
    \/ \E pid \in PatternIds, writeOk \in BOOLEAN : getCachedSolution(pid, writeOk)
    \/ \E pid \in PatternIds, ok \in BOOLEAN, writeOk \in BOOLEAN :
           updateSolutionEffectiveness(pid, ok, writeOk)
    \/ initializeCache

SpecCache == InitCache /\ [][NextCache]_vars

\* C8: every cache mutation is persisted before the call returns: whenever no
\* call is running, the file of each cached pattern_id holds the record the
\* cache holds, so a restart reloads it with the values the call wrote.
C8_MutationsPersisted ==
    \A pid \in DOMAIN solutionCache :
        pid \in DOMAIN disk /\ disk[pid] = ToJson(solutionCache[pid])

\* ---------------------------------------------------------- the gateway
DAILY_CALL_LIMIT == 17

UsageOf(log, day) == {u \in BagToSet(log) : u.day = day}

\* UsageTracker.checkDailyBudget: costToday is summed and then left out of
\* the answer, only the number of calls decides
UsageTracker_checkDailyBudget(log, day) ==
    LET todayUsage == UsageOf(log, day)
        callsMadeToday == BagCardinality([u \in todayUsage |-> log[u]])
    IN  [can_proceed |-> callsMadeToday < DAILY_CALL_LIMIT,
         calls_made_today |-> callsMadeToday,
         remaining_budget |-> Max(0, DAILY_CALL_LIMIT - callsMadeToday)]

\* the reduce of checkDailyBudget / getBudgetStatus, in millionths of a dollar
RECURSIVE CostOfUsage(_, _)
CostOfUsage(log, usages) ==
    IF usages = {} THEN 0
    ELSE LET u == CHOOSE x \in usages : TRUE
         IN  u.cost * log[u] + CostOfUsage(log, usages \ {u})

costToday(log, day) == CostOfUsage(log, UsageOf(log, day))

recordUsage(log, usage) == log (+) SetToBag({usage})

\* saveUsageLog rewrites usage-log.json with the whole in-memory log; a failed
\* write is caught and only logged
saveUsageLog(file, log, saveOk) == IF saveOk THEN log ELSE file

\* BatchProcessor
RECURSIVE removeDuplicateErrors(_, _)
removeDuplicateErrors(errors, seen) ==
    IF errors = <<>> THEN <<>>
    ELSE LET signature == Head(errors).error_message \o <<"_">> \o Head(errors).repo_context
         IN  IF signature \in seen THEN removeDuplicateErrors(Tail(errors), seen)
             ELSE <<Head(errors)>>
                  \o removeDuplicateErrors(Tail(errors), seen \cup {signature})

prioritizeNovelErrors(errors) ==
    StableSort(errors, [e \in SeqToSet(errors) |-> 0 - e.stack_len])

optimizeForCostEfficiency(errorBatch) ==
    prioritizeNovelErrors(Slice(removeDuplicateErrors(errorBatch, {}), 12))

DecimalLen(n) == IF n < 10 THEN 1 ELSE IF n < 100 THEN 2 ELSE 3

\* length of the text createBatchAnalysisPrompt builds
PromptChars(errorBatch, crossRepoContext) ==
    LET n == Len(errorBatch)
        errorChars(i) ==
            68 + DecimalLen(i) + Len(errorBatch[i].error_message)
               + Len(errorBatch[i].repo_context)
               + (IF errorBatch[i].stack_len > 0
                  THEN Min(errorBatch[i].stack_len, 200) + 3 ELSE 12)
               + errorBatch[i].env_chars
        RECURSIVE sum(_)
        sum(i) == IF i = 0 THEN 0 ELSE errorChars(i) + sum(i - 1)
    IN  (IF crossRepoContext THEN 1399 ELSE 1136) + DecimalLen(n)
        + sum(n) + (IF n > 0 THEN n - 1 ELSE 0)

CeilDiv(a, b) == (a + b - 1) \div b

estimateTokenUsage(promptChars, responseChars) ==
    CeilDiv(promptChars, 4) + CeilDiv(responseChars, 4)

\* calculateCallCost in millionths of a dollar: 70% of the tokens at 0.25 and
\* 30% at 1.25 per million
calculateCallCost(tokensUsed) == (tokensUsed * 7 * 25 + tokensUsed * 3 * 125) \div 1000

\* parseStructuredResponse on the first content block: a text without a JSON
\* object parses to the empty result; a JSON object keeps the list fields it
\* has, patterns and novel_insights are filled in when missing, and
\* cross_repo_correlations stays undefined when missing
parseStructuredResponse(response) ==
    IF ~response.parsable
    THEN [patterns |-> <<>>, novel_insights |-> <<>>, cross_repo_correlations |-> <<>>]
    ELSE [patterns |-> IF "patterns" \in response.lists THEN response.patterns ELSE <<>>,
          novel_insights |-> <<>>,
          cross_repo_correlations |->
              IF "cross_repo_correlations" \in response.lists THEN <<>> ELSE Absent]

\* `x || []` of analyzeBatchWithBudget (patterns and novel_insights are never
\* undefined after parseStructuredResponse)
OrEmptyList(x) == IF x = Absent THEN <<>> ELSE x

\* `!canUseClaude` is applied to the object checkDailyBudget resolves to, and
\* an object converts to true whatever its fields say
ObjectIsTruthy(obj) == TRUE

CtxDump == ErrorContext(<<"h","e","a","p"," ","d","u","m","p">>, 0, FALSE, None, 300, 640000)

ErrorBatches == {<<CtxDocker>>, <<CtxDump, CtxDump>>}

\* What messages.create resolves to: the number of content blocks, whether
\* the text of the first block holds a JSON object, the list fields of that
\* object, its patterns, and the length of the text.
AllLists == {"patterns", "novel_insights", "cross_repo_correlations"}

ProseResponse ==
    [blocks |-> 1, parsable |-> FALSE, lists |-> {}, patterns |-> <<>>, text_len |-> 2000]
FullResponse ==
    [blocks |-> 1, parsable |-> TRUE, lists |-> AllLists, patterns |-> <<PatA, PatB>>,
     text_len |-> 2000]
BareResponse ==
    [blocks |-> 1, parsable |-> TRUE, lists |-> {}, patterns |-> <<>>, text_len |-> 2000]
EmptyResponse ==
    [blocks |-> 0, parsable |-> FALSE, lists |-> {}, patterns |-> <<>>, text_len |-> 0]

Responses == {ProseResponse, FullResponse}
MalformedResponses == {BareResponse, EmptyResponse}

\* the lists of the ClaudeAnalysisResult analyzeBatchWithBudget returns
ResultLists(response) ==
    LET analysisResult == parseStructuredResponse(response)
    IN  [patterns |-> analysisResult.patterns,
         novel_insights |-> analysisResult.novel_insights,
         cross_repo_correlations |-> OrEmptyList(analysisResult.cross_repo_correlations)]

Result(type, cost, depth, limitReached, gatewayCalled) ==
    [analysis_type |-> type, api_cost |-> cost, depth |-> depth,
     limit_reached |-> limitReached, gateway_called |-> gatewayCalled]

\* analyzeErrorPatterns up to the request to the external service
analyzeErrorPatterns(s, error_batch, analysis_depth) ==
    /\ call[s].pc = "idle"
    /\ LET canUseClaude == checkDailyBudget
           budgetStatus == UsageTracker_checkDailyBudget(usageLog, today)
           limitReached == budgetStatus.calls_made_today >= DAILY_CALL_LIMIT
       IN  IF analysis_depth = "local_only"
           THEN /\ lastResult' = Result("local_only", 0, analysis_depth, limitReached, FALSE)
                /\ UNCHANGED call
           ELSE IF ~ObjectIsTruthy(canUseClaude) /\ analysis_depth = "claude_if_needed"
           THEN /\ lastResult' = Result("local_fallback_budget_exceeded", 0,
                                        analysis_depth, limitReached, FALSE)
                /\ UNCHANGED call
           ELSE IF ~budgetStatus.can_proceed
           THEN \* analyzeBatchWithBudget throws, the handler answers the error
                /\ lastResult' = Result("error", 0, analysis_depth, limitReached, FALSE)
                /\ UNCHANGED call
           ELSE /\ call' = [call EXCEPT ![s] =
                               [pc |-> "api", depth |-> analysis_depth,
                                input |-> error_batch,
                                batch |-> optimizeForCostEfficiency(error_batch)]]
                /\ UNCHANGED lastResult
    /\ UNCHANGED <<today, serverVars, usageLog, usageFile, recorded, repaid, schedVars, cacheVars>>

\* the external service answers.  With a content block the usage is
\* recorded, the answer parsed, the patterns cached and the result returned.
\* With an empty content array estimateTokenUsage reads .text of undefined:
\* the TypeError is rethrown as 'Claude analysis failed' before anything is
\* recorded, and the handler answers the error.
ApiResponds(s, response, writeOk, saveOk) ==
    /\ call[s].pc = "api"
    /\ IF response.blocks = 0
       THEN /\ lastResult' = Result("error", 0, call[s].depth, FALSE, TRUE)
            /\ UNCHANGED <<usageLog, usageFile, recorded, repaid, cacheVars>>
       ELSE LET tokensUsed == estimateTokenUsage(PromptChars(call[s].batch, TRUE),
                                                 response.text_len)
                callCost == calculateCallCost(tokensUsed)
                patterns == ResultLists(response).patterns
                store == cacheAnalysisResults([memory |-> solutionCache, files |-> disk],
                                              AnalysisResult(patterns, <<>>), today, writeOk)
                usage == [day |-> today, tokens_used |-> tokensUsed,
                          cost |-> callCost, batch_size |-> Len(call[s].batch)]
            IN  /\ usageLog' = recordUsage(usageLog, usage)
                /\ usageFile' = saveUsageLog(usageFile, recordUsage(usageLog, usage), saveOk)
                /\ recorded' = recorded (+) SetToBag({usage})
                /\ solutionCache' = store.memory
                /\ disk' = store.files
                /\ repaid' = repaid \cup {p.pattern_id : p \in
                                            {q \in SeqToSet(patterns) : Cached(q.pattern_id)}}
                /\ lastResult' = Result("claude_enhanced", callCost, call[s].depth,
                                        FALSE, TRUE)
                /\ UNCHANGED feedbacks
    /\ call' = [call EXCEPT ![s] = IdleCall]
    /\ UNCHANGED <<today, serverVars, schedVars>>

\* the request fails or times out: nothing is recorded
ApiFails(s) ==
    /\ call[s].pc = "api"
    /\ lastResult' = Result("error", 0, call[s].depth, FALSE, TRUE)
    /\ call' = [call EXCEPT ![s] = IdleCall]
    /\ UNCHANGED <<today, serverVars, usageLog, usageFile, recorded, repaid, schedVars, cacheVars>>

AnalysisDepths == {"local_only", "claude_if_needed", "comprehensive"}

Init == today = 0 /\ InitIdle

Next ==
    \/ \E s \in Slots, error_batch \in ErrorBatches, analysis_depth \in AnalysisDepths :
           analyzeErrorPatterns(s, error_batch, analysis_depth)
    \/ \E s \in Slots, response \in Responses, writeOk \in BOOLEAN :
           ApiResponds(s, response, writeOk, TRUE)
    \/ \E s \in Slots : ApiFails(s)

Spec == Init /\ [][Next]_vars

callsToday == UsageTracker_checkDailyBudget(usageLog, today).calls_made_today

\* the daily ceiling of getBudgetStatus, 25 dollars over 30 days
DailyCeiling == (25 * 1000000) \div 30

\* C1: a pattern_id is paid for at most once: no successful gateway result
\* introduces a pattern_id that an earlier gateway result already put into
\* the cache.
C1_AtMostOncePayment == repaid = {}

\* C2: the cost recorded in the usage ledger for the current day never exceeds
\* the daily ceiling plus the critical overflow allowance.
C2_DailyCostWithinCeiling ==
    costToday(usageLog, today) <= DailyCeiling + EmergencyAllowance

\* C4: when the day's recorded calls have reached the daily call limit, an
\* analysis of depth claude_if_needed answers local_fallback_budget_exceeded
\* with cost 0 and without reaching the gateway.
C4_BudgetExhaustionFallback ==
    (/\ lastResult.analysis_type # None
     /\ lastResult.depth = "claude_if_needed"
     /\ lastResult.limit_reached)
    => /\ lastResult.analysis_type = "local_fallback_budget_exceeded"
       /\ lastResult.api_cost = 0
       /\ ~lastResult.gateway_called

\* C9: whatever the interleaving of concurrent analyses, the number of calls
\* recorded for one day never exceeds the daily call limit.
C9_RecordedCallsWithinLimit == callsToday <= DAILY_CALL_LIMIT

\* ------------------------------------------------- the ledger and restarts
\* The process is restarted: every object is constructed anew. UsageTracker
\* starts from `usageLog = []` and nothing reads usage-log.json; the scheduler
\* starts from an empty Map; the cache loads its directory.
Restart ==
    /\ usageLog' = EmptyBag
    /\ call' = [s \in Slots |-> IdleCall]
    /\ errorQueue' = <<>>
    /\ task' = [t \in Timers |-> Idle]
    /\ solutionCache' = [f \in DOMAIN disk |-> disk[f]]
    /\ UNCHANGED <<today, serverVars, usageFile, recorded, repaid, lastResult, disk, feedbacks,
                   clock, objs, resolved, dropped, dispatched, lastSelect,
                   lastFailure, spentToday>>

InFlightCalls == Cardinality({s \in Slots : call[s].pc = "api"})

InitLedger == today = 0 /\ InitIdle

NextLedger ==
    \/ \E s \in Slots, error_batch \in ErrorBatches, analysis_depth \in AnalysisDepths :
           /\ BagCardinality(recorded) + InFlightCalls < MaxLedger
           /\ analyzeErrorPatterns(s, error_batch, analysis_depth)
    \/ \E s \in Slots, response \in Responses, writeOk \in BOOLEAN, saveOk \in BOOLEAN :
           ApiResponds(s, response, writeOk, saveOk)
    \/ \E s \in Slots : ApiFails(s)
    \/ Restart
    \/ DayTick

SpecLedger == InitLedger /\ [][NextLedger]_vars

\* C11: BudgetState is what the ledger recorded: today's calls and today's
\* spend equal the calls and the cost recorded earlier the same day, restart or
\* not, and no write to the persisted ledger removes a record it held.
C11_LedgerSurvivesRestart ==
    /\ [](/\ callsToday = BagCardinality([u \in UsageOf(recorded, today) |-> recorded[u]])
          /\ costToday(usageLog, today) = costToday(recorded, today))
    /\ [][usageFile \sqsubseteq usageFile']_vars

LaneCatalogue == {CtxOutage, CtxDown, CtxDocker}

InitLane == today \in {2, 3} /\ InitIdle

NextLane ==
    \/ \E ctx \in LaneCatalogue :
           /\ \A o \in Allocated : objs[o].error_context # ctx
           /\ queueForClaudeAnalysis(ctx, MaxItems)
    \/ processQueue
    \/ startQueueProcessor
    \/ \E t \in Timers : BatchSucceeds(t)
    \/ \E t \in Timers : BatchFails(t)

SpecLane ==
    /\ InitLane /\ [][NextLane]_vars
    /\ WF_vars(startQueueProcessor)
    /\ \A t \in Timers : WF_vars(BatchSucceeds(t) \/ BatchFails(t))

\* C13: every critical item that is enqueued is eventually dispatched, on any
\* day of the week, as long as the critical-lane timer keeps firing.
C13_CriticalEventuallyDispatched ==
    \A o \in 1..MaxItems :
        (o \in Allocated /\ objs[o].priority = "critical")
            ~> (o \in Allocated /\ dispatched[o] > 0)

\* ---------------------------------------------------------- cache: claims
PutOf(pattern) == AnalysisResult(<<pattern>>, <<>>)

\* C14: put_batch is an idempotent upsert: a put of a pattern_id that is
\* already cached keeps the entry's accumulated usage_count and its
\* feedback-adjusted success_rate, and putting the same batch once more
\* changes nothing.
C14_PutMergesExisting ==
    [][\A pattern \in DiscoveredPatterns, writeOk \in BOOLEAN :
         (CachePut(PutOf(pattern), writeOk) /\ Cached(pattern.pattern_id)) =>
             LET old == solutionCache[pattern.pattern_id]
                 new == solutionCache'[pattern.pattern_id]
                 after == [memory |-> solutionCache', files |-> disk']
             IN  /\ new.usage_count = old.usage_count
                 /\ new.success_rate = old.success_rate
                 /\ cacheAnalysisResults(after, PutOf(pattern), today, writeOk) = after
      ]_vars

\* C15: a get that hits changes only that entry's usage_count (plus 1) and
\* last_accessed; every other field of the entry and every other entry stay
\* as they were. A get that misses changes no entry.
C15_GetChangesOnlyUsage ==
    [][\A pid \in PatternIds, writeOk \in BOOLEAN :
         getCachedSolution(pid, writeOk) =>
             IF Cached(pid)
             THEN /\ DOMAIN solutionCache' = DOMAIN solutionCache
                  /\ \A q \in DOMAIN solutionCache \ {pid} :
                         solutionCache'[q] = solutionCache[q]
                  /\ solutionCache'[pid] =
                         [solutionCache[pid] EXCEPT
                            !.usage_count = @ + 1,
                            !.last_accessed = solutionCache'[pid].last_accessed]
             ELSE solutionCache' = solutionCache
      ]_vars

\* two gets in a row have hit an entry while another entry is cached
C15_Witness ==
    /\ Cardinality(DOMAIN solutionCache) = 2
    /\ \E pid \in DOMAIN solutionCache :
           /\ solutionCache[pid].usage_count = 2
           /\ solutionCache[pid].success_rate = 85 * RateUnit

\* C16: a put of a pattern with pattern_id p, fix_template f and confidence c,
\* followed by get(p), returns a record with pattern_id p, solution_text taken
\* from f, confidence_score c and usage_count 1.
C16_PutGetRoundTrip ==
    [][\A pattern \in DiscoveredPatterns, writeOk \in BOOLEAN :
         (CachePut(PutOf(pattern), writeOk) /\ FixTruthy(pattern.fix_template)) =>
             LET got == AccessedSolution(solutionCache'[pattern.pattern_id], today)
             IN  /\ got.pattern_id = pattern.pattern_id
                 /\ got.solution_text = pattern.fix_template
                 /\ got.confidence_score = pattern.confidence
                 /\ got.usage_count = 1
      ]_vars

\* The cache being read: patterns are put, looked up and rated. The writes of
\* put_batch and of the feedback succeed here; the write of a get may fail.
InitHits == today = 0 /\ InitIdle

NextHits ==
    \/ \E pattern \in DiscoveredPatterns : CachePut(PutOf(pattern), TRUE)
    \/ \E pid \in PatternIds, writeOk \in BOOLEAN : getCachedSolution(pid, writeOk)
    \/ \E pid \in PatternIds, ok \in BOOLEAN : updateSolutionEffectiveness(pid, ok, TRUE)

SpecHits == InitHits /\ [][NextHits]_vars

\* The cache being rated: a pattern and an insight are put and receive
\* feedback; any write may fail.
InsightId == NewInsightSolution(InsA, 0).pattern_id

RatedIds == {PatA.pattern_id, InsightId}

InitFeedback == today = 0 /\ InitIdle

NextFeedback ==
    \/ \E analysisResult \in {PutOf(PatA), AnalysisResult(<<>>, <<InsA>>)},
          writeOk \in BOOLEAN : CachePut(analysisResult, writeOk)
    \/ \E pid \in RatedIds, ok \in BOOLEAN, writeOk \in BOOLEAN :
           updateSolutionEffectiveness(pid, ok, writeOk)

SpecFeedback == InitFeedback /\ [][NextFeedback]_vars

\* C17: a feedback on a cached entry sets success_rate to 0.9 * success_rate
\* + 10 on success and to 0.9 * success_rate on failure, and confidence_score
\* to min(100, confidence_score + 2) on success and max(50, confidence_score
\* - 5) on failure; a success below 100 strictly raises success_rate and never
\* takes it above 100 (from 80: 82, 83.8, 85.42).
C17_EffectivenessFeedback ==
    [][\A pid \in RatedIds, ok \in BOOLEAN, writeOk \in BOOLEAN :
         updateSolutionEffectiveness(pid, ok, writeOk) =>
             LET old == solutionCache[pid]
                 new == solutionCache'[pid]
             IN  /\ 10 * new.success_rate
                        = 9 * old.success_rate + (IF ok THEN 100 * RateUnit ELSE 0)
                 /\ new.confidence_score =
                        IF ok THEN Min(100, old.confidence_score + 2)
                        ELSE Max(50, old.confidence_score - 5)
                 /\ new.success_rate <= 100 * RateUnit
                 /\ (ok /\ old.success_rate < 100 * RateUnit)
                        => new.success_rate > old.success_rate
      ]_vars

\* the insight put at success_rate 80 and confidence 97 has received three
\* successes: 85.42, and the confidence stopped at 100
C17_Witness ==
    /\ Cached(InsightId)
    /\ feedbacks = 3
    /\ solutionCache[InsightId].success_rate = 8542 * (RateUnit \div 100)
    /\ solutionCache[InsightId].confidence_score = 100

\* ------------------------------------------------------ the budget: claims
dailySpend == costToday(usageLog, today)

\* C18: the day's spend, the sum of the costs of the usage records of the
\* current day, never decreases from one observation to the next within a
\* day, and is 0 when a new day begins.
C18_DailySpendMonotone ==
    [][/\ today' = today => dailySpend' >= dailySpend
       /\ today' # today => dailySpend' = 0]_vars

\* C19: the scheduler's budget check reads what the gateway recorded: with n
\* calls of total cost c recorded today it returns calls_made_today = n and
\* remaining_budget = max(0, daily ceiling - c), and allows to proceed only if
\* the remaining budget exceeds the minimum per-call cost of 0.05.
C19_SchedulerReadsLedger ==
    /\ checkDailyBudget.calls_made_today = callsToday
    /\ checkDailyBudget.remaining_budget = Max(0, dailyBudgetLimit - dailySpend)
    /\ checkDailyBudget.can_proceed => checkDailyBudget.remaining_budget > 50000

\* the sub-budget of each processing window, in millionths of a dollar, as
\* the constructor's schedule states them
windowBudget == [weekend_batch |-> 400000, cross_repo_analysis |-> 300000,
                 weekly_synthesis |-> 250000, critical_error |-> 100000]

\* C20: in every processing window the cost of the selected batch (with what
\* the same pass has already processed) exceeds neither the window's
\* sub-budget nor the remaining daily budget, and the batch is in order of
\* priority weight descending, then enqueue time ascending.
C20_WindowWithinSubBudget ==
    \A t \in Timers :
        task[t].pc = "await" =>
            LET batch == task[t].batch
            IN  /\ task[t].processedCost + SumOver(batch, CostOf(objs))
                       <= Min(windowBudget[task[t].window], checkDailyBudget.remaining_budget)
                /\ \A i, j \in 1..Len(batch) :
                       i < j =>
                           \/ WeightOf(batch[i]) > WeightOf(batch[j])
                           \/ /\ WeightOf(batch[i]) = WeightOf(batch[j])
                              /\ objs[batch[i]].queued_at.ms <= objs[batch[j]].queued_at.ms

\* ------------------------------------------------- the local pattern engine
\* `${x}` of a template literal
Str(x) == IF x = Absent THEN <<"u","n","d","e","f","i","n","e","d">> ELSE x

\* `x || ''`
OrEmpty(x) == IF x = Absent THEN <<>> ELSE x

\* A signature is a regular expression of the form a1.*a2|b1.*b2: a list of
\* alternatives, each a list of literal parts that must occur in this order.
\* The 'i' flag is modelled by writing the parts in lower case; the text the
\* engine tests is already lower case.  The texts of the model hold no line
\* break, which `.` would not match.
RECURSIVE MatchParts(_, _)
MatchParts(parts, text) ==
    IF parts = <<>> THEN TRUE
    ELSE LET lit == Head(parts)
         IN  \E i \in 1..(Len(text) - Len(lit) + 1) :
                 /\ SubSeq(text, i, i + Len(lit) - 1) = lit
                 /\ MatchParts(Tail(parts), SubSeq(text, i + Len(lit), Len(text)))

RegExpTest(signature, text) ==
    \E a \in 1..Len(signature) : MatchParts(signature[a], text)

ErrorPattern(id, type, signature, threshold, fixes) ==
    [id |-> id, type |-> type, signature |-> signature,
     confidence_threshold |-> threshold, fix_templates |-> fixes]

\* LocalPatternEngine.patterns in insertion order: the patterns of the
\* database that the texts of the model can match
patterns ==
    <<ErrorPattern("python_import_module_not_found", <<"p","y","t","h","o","n","_","i","m","p","o","r","t","_","e","r","r","o","r">>,
                   <<<<<<"m","o","d","u","l","e","n","o","t","f","o","u","n","d","e","r","r","o","r">>>>, <<<<"i","m","p","o","r","t","e","r","r","o","r">>, <<"n","o"," ","m","o","d","u","l","e"," ","n","a","m","e","d">>>>>>, 95,
                   <<"pip install {module_name}", "Add {module_name} to requirements.txt",
                     "Check virtual environment activation">>),
      ErrorPattern("js_cannot_read_property_undefined", <<"j","a","v","a","s","c","r","i","p","t","_","r","u","n","t","i","m","e","_","e","r","r","o","r">>,
                   <<<<<<"c","a","n","n","o","t"," ","r","e","a","d"," ","p","r","o","p","e","r","t","y">>, <<"o","f"," ","u","n","d","e","f","i","n","e","d">>>>,
                     <<<<"t","y","p","e","e","r","r","o","r">>, <<"u","n","d","e","f","i","n","e","d">>>>>>, 85,
                   <<"Use optional chaining: {object}?.{property}",
                     "Add check: if ({object}) { ... }",
                     "Use nullish coalescing: {object} ?? defaultValue">>),
      ErrorPattern("js_http_bridge_timeout", <<"j","a","v","a","s","c","r","i","p","t","_","n","e","t","w","o","r","k","_","e","r","r","o","r">>,
                   <<<<<<"e","c","o","n","n","r","e","s","e","t">>>>, <<<<"e","t","i","m","e","d","o","u","t">>>>, <<<<"s","o","c","k","e","t"," ","h","a","n","g"," ","u","p">>>>>>, 87,
                   <<"Add retry mechanism with await retry(func, {retries: 3})",
                     "Increase timeout: {timeout: 30000}",
                     "Implement circuit breaker pattern">>),
      ErrorPattern("docker_network_not_found", <<"d","o","c","k","e","r","_","n","e","t","w","o","r","k","_","e","r","r","o","r">>,
                   <<<<<<"n","e","t","w","o","r","k">>, <<"n","o","t"," ","f","o","u","n","d">>>>, <<<<"f","a","i","l","e","d"," ","t","o"," ","c","r","e","a","t","e"," ","n","e","t","w","o","r","k">>>>>>, 94,
                   <<"docker network create {network_name}",
                     "Add to docker-compose: networks: {network_name}: external: true",
                     "Restart docker daemon if needed">>),
      ErrorPattern("git_merge_conflict", <<"g","i","t","_","m","e","r","g","e","_","e","r","r","o","r">>,
                   <<<<<<"c","o","n","f","l","i","c","t">>, <<"m","e","r","g","e"," ","c","o","n","f","l","i","c","t">>>>, <<<<"a","u","t","o","m","a","t","i","c"," ","m","e","r","g","e"," ","f","a","i","l","e","d">>>>>>, 96,
                   <<"git status to see conflicted files",
                     "Edit files to resolve <<<< HEAD conflicts",
                     "git add . && git commit to complete merge">>),
      ErrorPattern("db_connection_refused", <<"d","a","t","a","b","a","s","e","_","c","o","n","n","e","c","t","i","o","n","_","e","r","r","o","r">>,
                   <<<<<<"c","o","n","n","e","c","t","i","o","n"," ","r","e","f","u","s","e","d">>, <<"d","a","t","a","b","a","s","e">>>>, <<<<"e","c","o","n","n","r","e","f","u","s","e","d">>, <<"5","4","3","2">>>>>>, 93,
                   <<"Start database service", "Check connection string">>)>>

KwPython == <<"p","y","t","h","o","n">>
KwJavascript == <<"j","a","v","a","s","c","r","i","p","t">>
KwNode == <<"n","o","d","e">>

\* createErrorSignature: md5 of message_stack_repo, the hash taken to be free
\* of collisions, so that two contexts share a key exactly when the
\* concatenated texts are equal
createErrorSignature(errorContext) ==
    Str(errorContext.error_message) \o <<"_">> \o OrEmpty(errorContext.stack_trace)
        \o <<"_">> \o Str(errorContext.repo_context)

CombinedText(errorContext) ==
    ToLowerCase(Str(errorContext.error_message) \o <<" ">>
                \o OrEmpty(errorContext.stack_trace))

calculateConfidence(pattern, errorContext, combinedText) ==
    LET hint(typeKw, repoKw) ==
            IF /\ errorContext.repo_context # Absent
               /\ errorContext.repo_context # <<>>
               /\ Includes(pattern.type, typeKw)
               /\ Includes(ToLowerCase(errorContext.repo_context), repoKw)
            THEN 10 ELSE 0
    IN  Min(70 + (IF RegExpTest(pattern.signature, combinedText) THEN 20 ELSE 0)
               + hint(KwPython, KwPython) + hint(KwJavascript, KwNode)
               + hint(KwDocker, KwDocker),
            100)

Unmatched ==
    [pattern_id |-> "unknown", pattern_type |-> <<"u","n","m","a","t","c","h","e","d">>, confidence |-> 0,
     suggested_actions |-> <<"Queue for Claude analysis - novel error pattern">>]

\* the loop of matchErrorPattern over patterns[i..]
RECURSIVE BestMatch(_, _, _)
BestMatch(i, bestMatch, errorContext) ==
    IF i > Len(patterns) THEN bestMatch
    ELSE LET pattern == patterns[i]
             combinedText == CombinedText(errorContext)
             confidence == calculateConfidence(pattern, errorContext, combinedText)
         IN  IF /\ RegExpTest(pattern.signature, combinedText)
                /\ confidence > bestMatch.confidence
                /\ confidence >= pattern.confidence_threshold
             THEN BestMatch(i + 1,
                            [pattern_id |-> pattern.id, pattern_type |-> pattern.type,
                             confidence |-> confidence,
                             suggested_actions |-> pattern.fix_templates],
                            errorContext)
             ELSE BestMatch(i + 1, bestMatch, errorContext)

\* ------------------------------------------------ capture_error_context
\* The arguments of a capture_error_context call: the three texts (Absent
\* when left out), environment_info.environment, the number of keys of
\* environment_info and the length of its JSON text.
CaptureArgs(msg, stack, repo, env, envKeys, envChars) ==
    [error_message |-> msg, stack_trace |-> stack, repo_context |-> repo,
     environment |-> env, env_keys |-> envKeys, env_chars |-> envChars]

RepoNode == <<"n","o","d","e","-","a","p","p">>
RepoDocker == <<"d","o","c","k","e","r","-","s","t","a","c","k">>

ArgReadProp == CaptureArgs(<<"C","a","n","n","o","t"," ","r","e","a","d"," ","p","r","o","p","e","r","t","y"," ","'","l","e","n","g","t","h","'"," ","o","f"," ","u","n","d","e","f","i","n","e","d">>, Absent, RepoCosmic, None, 0, 2)
ArgHang == CaptureArgs(<<"s","o","c","k","e","t"," ","h","a","n","g">>, <<"u","p","_","x">>, RepoNode, None, 0, 2)
ArgHangUp == CaptureArgs(<<"s","o","c","k","e","t"," ","h","a","n","g","_","u","p">>, <<"x">>, RepoNode, None, 0, 2)
ArgTimeout == CaptureArgs(<<"E","T","I","M","E","D","O","U","T"," ","n","e","t","w","o","r","k"," ","d","b"," ","n","o","t"," ","f","o","u","n","d">>, Absent, RepoDocker, None, 0, 2)
ArgImport == CaptureArgs(<<"M","o","d","u","l","e","N","o","t","F","o","u","n","d","E","r","r","o","r",":"," ","y","a","m","l">>, Absent, RepoCosmic, None, 0, 2)
ArgApi == CaptureArgs(<<"a","p","i"," ","r","e","q","u","e","s","t"," ","f","a","i","l","e","d">>, Absent, RepoCosmic, None, 0, 2)
ArgNoMessage == CaptureArgs(Absent, Absent, RepoCosmic, None, 0, 2)
ArgNoMessageProd == CaptureArgs(Absent, Absent, RepoCosmic, "production", 1, 30)
ArgNoRepo == CaptureArgs(<<"a","p","i"," ","r","e","q","u","e","s","t"," ","f","a","i","l","e","d">>, Absent, Absent, None, 0, 2)

\* the arguments the classifier claims are about, and those the queue claims
\* are about
MatchCatalogue == {ArgReadProp, ArgHang, ArgHangUp, ArgTimeout, ArgImport}
QueueCatalogue == {ArgReadProp, ArgImport, ArgApi, ArgNoMessage, ArgNoMessageProd, ArgNoRepo}
\* the context suggestPreventiveFixes hands the classifier for a pattern
\* without message
ArgPatternBased == CaptureArgs(<<"P","a","t","t","e","r","n","-","b","a","s","e","d"," ","a","n","a","l","y","s","i","s">>, Absent, RepoCosmic, None, 0, 2)

\* a repository named after all three runtimes: every context hint of
\* calculateConfidence that a pattern's type admits is aligned
RepoAll == <<"p","y","t","h","o","n","-","n","o","d","e","-","d","o","c","k","e","r">>

\* one context for each pattern of the library: a message only that pattern's
\* signature matches, from the repository that aligns every hint
ArgForPattern ==
    <<CaptureArgs(<<"M","o","d","u","l","e","N","o","t","F","o","u","n","d","E","r","r","o","r",":"," ","y","a","m","l">>, Absent, RepoAll, None, 0, 2),
      CaptureArgs(<<"C","a","n","n","o","t"," ","r","e","a","d"," ","p","r","o","p","e","r","t","y"," ","'","l","e","n","g","t","h","'"," ","o","f"," ","u","n","d","e","f","i","n","e","d">>, Absent, RepoAll, None, 0, 2),
      CaptureArgs(<<"s","o","c","k","e","t"," ","h","a","n","g"," ","u","p">>, Absent, RepoAll, None, 0, 2),
      CaptureArgs(<<"f","a","i","l","e","d"," ","t","o"," ","c","r","e","a","t","e"," ","n","e","t","w","o","r","k">>, Absent, RepoAll, None, 0, 2),
      CaptureArgs(<<"A","u","t","o","m","a","t","i","c"," ","m","e","r","g","e"," ","f","a","i","l","e","d",";"," ","f","i","x"," ","c","o","n","f","l","i","c","t","s">>, Absent, RepoAll, None, 0, 2),
      CaptureArgs(<<"C","o","n","n","e","c","t","i","o","n"," ","r","e","f","u","s","e","d"," ","b","y"," ","d","a","t","a","b","a","s","e">>, Absent, RepoAll, None, 0, 2)>>

LibraryCatalogue == {ArgForPattern[i] : i \in 1..Len(ArgForPattern)}

CaptureCatalogue ==
    MatchCatalogue \cup QueueCatalogue \cup {ArgPatternBased} \cup LibraryCatalogue

\* what the engine computes for each argument of the catalogue, evaluated once
SignatureOf == [args \in CaptureCatalogue |-> createErrorSignature(args)]
BestMatchOf == [args \in CaptureCatalogue |-> BestMatch(1, Unmatched, args)]

\* matchErrorPattern on the memo: the match it returns and the memo it leaves
matchErrorPattern(memo, errorContext) ==
    LET errorSignature == SignatureOf[errorContext]
    IN  IF errorSignature \in DOMAIN memo
        THEN [match |-> memo[errorSignature], memo |-> memo]
        ELSE LET bestMatch == BestMatchOf[errorContext]
             IN  [match |-> bestMatch, memo |-> MapPut(memo, errorSignature, bestMatch)]

\* the context as the scheduler's helpers read it
ContextOf(args) ==
    [error_message |-> Str(args.error_message),
     repo_context |-> Str(args.repo_context),
     stack_len |-> Len(OrEmpty(args.stack_trace)),
     stack_has_test |-> Includes(ToLowerCase(OrEmpty(args.stack_trace)), KwTest),
     environment |-> args.environment,
     env_keys |-> args.env_keys,
     env_chars |-> args.env_chars]

\* determinePriority calls error_message.toLowerCase() unless
\* environment_info.environment is 'production': a TypeError on undefined
QueueThrows(args) == args.error_message = Absent /\ args.environment # "production"

Reply(args, match, answer) ==
    [verb |-> "capture_error_context", args |-> args, match |-> match, answer |-> answer]

\* captureErrorContext.  suggested_solution is the set of the solutions the
\* cache returned: empty for null.
captureErrorContext(args, writeOk) ==
    LET found == matchErrorPattern(signatureCache, args)
        localMatch == found.match
        pid == localMatch.pattern_id
    IN  /\ signatureCache' = found.memo
        /\ IF localMatch.confidence > 85
           THEN /\ IF Cached(pid)
                   THEN /\ solutionCache[pid].usage_count < MaxUsage
                        /\ LET cached == AccessedSolution(solutionCache[pid], today)
                           IN  /\ solutionCache' = [solutionCache EXCEPT ![pid] = cached]
                               /\ disk' = saveSolutionToFile(disk, cached, writeOk)
                   ELSE UNCHANGED <<solutionCache, disk>>
                /\ reply' = Reply(args, localMatch,
                                  [analysis_type |-> "local_pattern_match",
                                   confidence |-> localMatch.confidence,
                                   pattern_type |-> localMatch.pattern_type,
                                   suggested_solution |->
                                       IF Cached(pid) THEN {solutionCache'[pid]} ELSE {},
                                   api_cost |-> 0])
                /\ UNCHANGED <<clock, objs, dispatched, errorQueue, lastSelect, lastFailure>>
           ELSE IF QueueThrows(args)
           THEN /\ reply' = Reply(args, localMatch,
                                  [error |-> "Failed to capture error context"])
                /\ UNCHANGED <<clock, objs, dispatched, errorQueue, lastSelect, lastFailure,
                               solutionCache, disk>>
           ELSE /\ QueueSet(ContextOf(args), MaxCaptured)
                /\ reply' = Reply(args, localMatch,
                                  [analysis_type |-> "queued_for_claude_analysis",
                                   queue_position |->
                                       calculateQueuePosition(errorQueue', objs',
                                                              objs'[Len(objs')]),
                                   local_match_confidence |-> localMatch.confidence,
                                   api_cost_estimate |-> objs'[Len(objs')].estimated_cost])
                /\ UNCHANGED <<solutionCache, disk>>
        /\ UNCHANGED <<today, io, task, resolved, dropped, spentToday, gatewayVars, feedbacks>>

\* a pattern the external service reports under the id of a library pattern
PatReadProp == DiscoveredPattern("js_cannot_read_property_undefined", FixString("guard"), 90)

InitCapture == today = 0 /\ InitIdle

NextCapture ==
    \/ \E args \in QueueCatalogue, writeOk \in BOOLEAN :
           captureErrorContext(args, writeOk)
    \/ CachePut(AnalysisResult(<<PatReadProp>>, <<>>), TRUE)

SpecCapture == InitCapture /\ [][NextCapture]_vars

NextMatch ==
    \E args \in MatchCatalogue : captureErrorContext(args, TRUE)

SpecMatch == InitCapture /\ [][NextMatch]_vars

\* ------------------------------------------------------ capture: claims
MissingRequired(args) == args.error_message = Absent \/ args.repo_context = Absent

IsError(answer) == "error" \in DOMAIN answer

\* C21: a capture without error_message or without repo_context is answered
\* with an error, and changes neither the queue, nor the classifier memo,
\* nor the cache.
C21_MissingFieldRejected ==
    [][\A args \in CaptureCatalogue, writeOk \in BOOLEAN :
          (MissingRequired(args) /\ captureErrorContext(args, writeOk)) =>
              /\ IsError(reply'.answer)
              /\ errorQueue' = errorQueue /\ objs' = objs
              /\ signatureCache' = signatureCache
              /\ solutionCache' = solutionCache /\ disk' = disk]_vars

\* ------------------------------------------- analyze_error_patterns alone
\* one analyze_error_patterns request at a time, every kind of answer
NextAnalyze ==
    \/ \E error_batch \in ErrorBatches, analysis_depth \in AnalysisDepths :
           analyzeErrorPatterns(1, error_batch, analysis_depth)
    \/ \E response \in Responses \cup MalformedResponses, writeOk \in BOOLEAN :
           ApiResponds(1, response, writeOk, TRUE)
    \/ ApiFails(1)

SpecAnalyze == Init /\ [][NextAnalyze]_vars

AnyResponse == Responses \cup MalformedResponses

\* C22: no verb raises, and whenever an internal step of analyze_batch fails
\* (the request to the external service, or the cache's write of a pattern
\* of the answer) the verb returns a result carrying an error.
C22_FailureCarriesError ==
    [][\A s \in Slots :
          /\ ApiFails(s) => lastResult'.analysis_type = "error"
          /\ \A response \in AnyResponse :
                 (/\ ApiResponds(s, response, FALSE, TRUE)
                  /\ ~ApiResponds(s, response, TRUE, TRUE))
                 => lastResult'.analysis_type = "error"]_vars

\* ---------------------------------------------------- classifier: claims
\* the confidence the classifier is to compute: 70, 20 for the rule match,
\* 10 for each aligned context hint, at most 100
HintsAligned(pattern, args) ==
    {h \in {<<KwPython, KwPython>>, <<KwJavascript, KwNode>>, <<KwDocker, KwDocker>>} :
        /\ args.repo_context # Absent
        /\ Includes(pattern.type, h[1])
        /\ Includes(ToLowerCase(args.repo_context), h[2])}

Qualifying(args) ==
    {i \in 1..Len(patterns) :
        /\ RegExpTest(patterns[i].signature, CombinedText(args))
        /\ Min(100, 70 + 20 + 10 * Cardinality(HintsAligned(patterns[i], args)))
               >= patterns[i].confidence_threshold}

\* C23: the match returned for a context is the library pattern of highest
\* confidence among those whose signature matches the lower-cased message and
\* stack text and whose confidence reaches their own threshold; when none
\* qualifies it is the unmatched sentinel with confidence 0 and the directive
\* to escalate.
C23_BestQualifyingMatch ==
    reply.verb # None =>
        LET args == reply.args
            conf(i) == Min(100, 70 + 20 + 10 * Cardinality(HintsAligned(patterns[i], args)))
        IN  IF Qualifying(args) = {}
            THEN reply.match = Unmatched
            ELSE \E i \in Qualifying(args) :
                     /\ reply.match.pattern_id = patterns[i].id
                     /\ reply.match.confidence = conf(i)
                     /\ \A j \in Qualifying(args) : conf(j) <= conf(i)

C25_OneRecordPerResponse ==
    [][/\ \A s \in Slots, response \in AnyResponse, writeOk \in BOOLEAN :
              ApiResponds(s, response, writeOk, TRUE) =>
                  /\ usageLog \sqsubseteq usageLog'
                  /\ BagCardinality(usageLog') = BagCardinality(usageLog) + 1
                  /\ \E u \in BagToSet(usageLog') :
                         /\ CopiesIn(u, usageLog') = CopiesIn(u, usageLog) + 1
                         /\ u.cost = lastResult'.api_cost
                         /\ u.batch_size = Len(call[s].batch)
                         /\ u.tokens_used > 0
       /\ (~\E s \in Slots, response \in AnyResponse, writeOk \in BOOLEAN :
               ApiResponds(s, response, writeOk, TRUE))
              => usageLog' = usageLog]_vars

\* C26: an answer that cannot be parsed does not make analyze_batch raise: the
\* result is returned with patterns, novel_insights and
\* cross_repo_correlations empty and nothing is cached; and a list field that
\* a parsed answer lacks is empty in the result.
C26_UnparsableGivesEmptyResult ==
    [][\A s \in Slots, response \in AnyResponse, writeOk \in BOOLEAN :
          ApiResponds(s, response, writeOk, TRUE) =>
              /\ ~response.parsable =>
                     /\ lastResult'.analysis_type = "claude_enhanced"
                     /\ ResultLists(response)
                            = [patterns |-> <<>>, novel_insights |-> <<>>,
                               cross_repo_correlations |-> <<>>]
                     /\ solutionCache' = solutionCache
              /\ response.parsable =>
                     /\ lastResult'.analysis_type = "claude_enhanced"
                     /\ "patterns" \notin response.lists
                            => ResultLists(response).patterns = <<>>
                     /\ "novel_insights" \notin response.lists
                            => ResultLists(response).novel_insights = <<>>
                     /\ "cross_repo_correlations" \notin response.lists
                            => ResultLists(response).cross_repo_correlations = <<>>]_vars

\* ---- the batch sent to the external service ----

\* error_batch inputs of analyze_error_patterns: BatchLen errors named by
\* letters, the second a repetition of the first or not; the stack trace is
\* long for some of the first two and the last three and short for the rest
ItemNames == <<"a","b","c","d","e","f","g","h","i","j","k","l","m","n","o","p">>
ShortStack == 0
LongStack == 40

BatchItem(k, stackLen) ==
    ErrorContext(<<"e","r","r"," ",ItemNames[k]>>, stackLen, FALSE, None, 0, 2)

LongBatches ==
    {[i \in 1..BatchLen |->
          BatchItem(IF i = 2 /\ repeated THEN 1 ELSE i,
                    IF i \in long THEN LongStack ELSE ShortStack)] :
        long \in SUBSET {1, 2, BatchLen - 2, BatchLen - 1, BatchLen},
        repeated \in BOOLEAN}

NextBatch ==
    \/ \E error_batch \in LongBatches :
           analyzeErrorPatterns(1, error_batch, "claude_if_needed")
    \/ ApiFails(1)

SpecBatch == Init /\ [][NextBatch]_vars

\* the first occurrence of every (error_message, repo_context) of a batch
FirstOccurrences(errors) ==
    {errors[i] : i \in {i \in 1..Len(errors) :
                           \A j \in 1..(i - 1) :
                               \/ errors[j].error_message # errors[i].error_message
                               \/ errors[j].repo_context # errors[i].repo_context}}

\* C27: the batch sent to the external service has no two items with the same
\* (error_message, repo_context), at most 12 items, only items of the input,
\* is ordered by stack-trace length non-increasing, and no item of the
\* deduplicated input that was left out has a longer stack trace than an
\* item that was sent.
C27_BatchLongestFirst ==
    \A s \in Slots :
        call[s].pc = "api" =>
            LET sent == call[s].batch
                left == FirstOccurrences(call[s].input) \ SeqToSet(sent)
            IN  /\ \A i, j \in 1..Len(sent) :
                       i # j => \/ sent[i].error_message # sent[j].error_message
                                \/ sent[i].repo_context # sent[j].repo_context
                /\ Len(sent) <= 12
                /\ SeqToSet(sent) \subseteq SeqToSet(call[s].input)
                /\ \A i \in 1..(Len(sent) - 1) :
                       sent[i].stack_len >= sent[i + 1].stack_len
                /\ \A e \in left, i \in 1..Len(sent) :
                       e.stack_len <= sent[i].stack_len

\* ---- cleanupCache ----

\* cutoffDate.setDate(cutoffDate.getDate() - 90)
RetentionDays == 90

\* a faulty shouldRemove: an entry cached exactly at the cutoff counts as old
shouldRemoveAtCutoff(solution, day) ==
    \/ solution.cached_date <= day - RetentionDays /\ solution.usage_count < 3
    \/ solution.success_rate < 30 * RateUnit /\ solution.usage_count > 5

\* shouldRemove of cleanupCache, dates counted in days
shouldRemove(solution, day) ==
    \/ solution.cached_date < day - RetentionDays /\ solution.usage_count < 3
    \/ solution.success_rate < 30 * RateUnit /\ solution.usage_count > 5

\* cleanupCache: every entry that should be removed leaves the map and its
\* file is removed; a removal that fails is caught and only logged (failed:
\* the entries whose file could not be removed).  No handler calls
\* cleanupCache, so nothing of this program runs between its steps.
cleanupCache(failed) ==
    /\ LET removed == {pid \in DOMAIN solutionCache :
                          shouldRemove(solutionCache[pid], today)}
       IN  /\ removed # {}
           /\ failed \subseteq removed
           /\ solutionCache' = [pid \in DOMAIN solutionCache \ removed |->
                                    solutionCache[pid]]
           /\ disk' = [f \in DOMAIN disk \ (removed \ failed) |-> disk[f]]
    /\ UNCHANGED <<today, serverVars, feedbacks, schedVars, gatewayVars>>

\* the solutions found in the cache directory at start: cached 89, 90 or 91
\* days ago, used 2, 3, 5 or 6 times, successful just under 30 percent or 30
StoredSolutions(pattern) ==
    {[NewCachedSolution(pattern, CleanupDay - age)
          EXCEPT !.usage_count = used, !.success_rate = rate,
                 !.last_accessed = CleanupDay - 1] :
        age \in {RetentionDays - 1, RetentionDays, RetentionDays + 1},
        used \in {2, 3, 5, 6},
        rate \in {30 * RateUnit - 1, 30 * RateUnit}}

StoredCaches ==
    {<<>>}
    \cup {MapPut(<<>>, PatA.pattern_id, a) : a \in StoredSolutions(PatA)}
    \cup {MapPut(MapPut(<<>>, PatA.pattern_id, a), PatB.pattern_id, b) :
            a \in StoredSolutions(PatA), b \in StoredSolutions(PatB)}

InitCleanup ==
    /\ today = CleanupDay
    /\ clock = 0
    /\ errorQueue = <<>>
    /\ objs = <<>>
    /\ task = [t \in Timers |-> Idle]
    /\ resolved = {}
    /\ dropped = {}
    /\ dispatched = <<>>
    /\ lastSelect = NoSelect
    /\ lastFailure = NoFailure
    /\ spentToday = 0
    /\ usageLog = EmptyBag
    /\ usageFile = EmptyBag
    /\ recorded = EmptyBag
    /\ call = [s \in Slots |-> IdleCall]
    /\ repaid = {}
    /\ lastResult = NoResult
    /\ solutionCache \in StoredCaches
    /\ disk = [f \in DOMAIN solutionCache |-> ToJson(solutionCache[f])]
    /\ feedbacks = 0
    /\ signatureCache = <<>>
    /\ reply = NoReply
    /\ io = NoIo

NextCleanup ==
    \/ \E failed \in SUBSET PatternIds : cleanupCache(failed)
    \/ \E pid \in PatternIds, ok \in BOOLEAN, writeOk \in BOOLEAN :
           updateSolutionEffectiveness(pid, ok, writeOk)
    \/ initializeCache

SpecCleanup == InitCleanup /\ [][NextCleanup]_vars

\* C28: after cleanupCache the cache holds exactly the entries it held before
\* that were neither (cached more than 90 days ago and used fewer than 3
\* times) nor (successful below 30 percent and used more than 5 times), each
\* with all its fields unchanged.
C28_CleanupKeepsTheRest ==
    [][\A failed \in SUBSET PatternIds :
          cleanupCache(failed) =>
              /\ DOMAIN solutionCache' =
                     {pid \in DOMAIN solutionCache :
                         LET e == solutionCache[pid]
                         IN  ~ \/ today - e.cached_date > 90 /\ e.usage_count < 3
                               \/ e.success_rate < 30 * RateUnit /\ e.usage_count > 5}
              /\ \A pid \in DOMAIN solutionCache' :
                     solutionCache'[pid] = solutionCache[pid]]_vars

\* a cleanup has removed an old, rarely used entry (its file could not be
\* removed, so only the file is left) and has kept an entry cached exactly 90
\* days ago that was used as rarely
C28_Witness ==
    /\ \E pid \in DOMAIN disk \ DOMAIN solutionCache :
           /\ today - disk[pid].cached_date > 90
           /\ disk[pid].usage_count < 3
    /\ \E pid \in DOMAIN solutionCache :
           /\ today - solutionCache[pid].cached_date = 90
           /\ solutionCache[pid].usage_count < 3

\* ---- the queue position ----

\* captures of errors of three priorities on a Wednesday while the hourly
\* timer takes items out of the queue
PositionCatalogue == {ArgImport, ArgApi, ArgNoMessageProd}

NextPosition ==
    \/ \E args \in PositionCatalogue : captureErrorContext(args, TRUE)
    \/ processQueue
    \/ BatchSucceeds("hourly")
    \/ BatchFails("hourly")

SpecPosition == InitBurst /\ [][NextPosition]_vars

\* the weight the text gives a priority
StatedWeight(priority) ==
    CASE priority = "critical" -> 100
      [] priority = "high" -> 75
      [] priority = "medium" -> 50
      [] priority = "low" -> 25

\* C29: the queue_position a capture answers is the number of items in the
\* queue at that moment (the new one among them) whose priority weight is
\* greater than or equal to the new item's weight.
C29_PositionCountsSameOrHigher ==
    [][\A args \in PositionCatalogue :
          (captureErrorContext(args, TRUE)
             /\ reply'.answer.analysis_type = "queued_for_claude_analysis") =>
              LET new == objs'[Len(objs')]
                  queued == {errorQueue'[i].ref : i \in 1..Len(errorQueue')}
              IN  reply'.answer.queue_position =
                      Cardinality({r \in queued :
                                      StatedWeight(objs'[r].priority)
                                          >= StatedWeight(new.priority)})]_vars

\* a high-priority error was queued ahead of a lower one after an earlier
\* item had left the queue: only the new item counts
C29_Witness ==
    /\ reply.verb = "capture_error_context"
    /\ reply.answer.analysis_type = "queued_for_claude_analysis"
    /\ reply.answer.queue_position = 1
    /\ Len(errorQueue) = 2
    /\ Len(objs) = 3
    /\ errorQueue[2].ref = 3
    /\ objs[3].priority = "high"
    /\ objs[errorQueue[1].ref].priority = "low"

\* C30: a capture that is resolved locally (classifier confidence above 85)
\* answers a solution record of the matched pattern, found in the cache, at
\* cost 0.
C30_LocalAnswerHasSolution ==
    (/\ reply.verb = "capture_error_context"
     /\ reply.match.confidence > 85)
        => /\ reply.answer.analysis_type = "local_pattern_match"
           /\ reply.answer.api_cost = 0
           /\ \E solution \in reply.answer.suggested_solution :
                  solution.pattern_id = reply.match.pattern_id

\* ---- the emergency allowance ----

\* canUseClaude(priority): a query of the usage log; the answer is kept with
\* the day and the number of calls it was computed from
canUseClaudeAnswer(priority, log, day) ==
    LET budgetStatus == UsageTracker_checkDailyBudget(log, day)
    IN  IF priority = "critical"
        THEN budgetStatus.calls_made_today < DAILY_CALL_LIMIT + 5
        ELSE budgetStatus.can_proceed

canUseClaude(priority) ==
    /\ reply' = [verb |-> "canUseClaude", args |-> priority,
                 answer |-> canUseClaudeAnswer(priority, usageLog, today),
                 day |-> today, calls |-> callsToday]
    /\ UNCHANGED <<today, signatureCache, io, schedVars, gatewayVars, cacheVars>>

\* one client asks for analyses one after the other, every answered call is
\* recorded, and asks now and then whether the gateway may be used
NextEmergency ==
    \/ \E analysis_depth \in {"claude_if_needed", "comprehensive"} :
           analyzeErrorPatterns(1, <<CtxDocker>>, analysis_depth)
    \/ ApiResponds(1, ProseResponse, TRUE, TRUE)
    \/ \E priority \in {"medium", "critical"} : canUseClaude(priority)
    \/ DayTick

SpecEmergency == Init /\ [][NextEmergency]_vars

\* C31: when canUseClaude('critical') has answered true (fewer than 17 + 5
\* calls recorded today) and no usage was recorded since, the gateway call
\* issued next is not rejected for budget; and canUseClaude('critical')
\* answers false once 22 calls are recorded for the day.
C31_CriticalOverflowHonoured ==
    [][/\ \A analysis_depth \in {"claude_if_needed", "comprehensive"} :
              (/\ reply.verb = "canUseClaude"
               /\ reply.args = "critical"
               /\ reply.answer
               /\ reply.day = today
               /\ reply.calls = callsToday
               /\ analyzeErrorPatterns(1, <<CtxDocker>>, analysis_depth))
                  => call'[1].pc = "api"
       /\ callsToday >= 22 => ~canUseClaudeAnswer("critical", usageLog, today)]_vars

\* ---- suggest_preventive_fixes ----

\* the arguments: the error_pattern's pattern_id and error_message, either
\* of which may be left out, and target_repo
SuggestArgs(pid, msg, repo) ==
    [error_pattern |-> [pattern_id |-> pid, error_message |-> msg], target_repo |-> repo]

SugCached == SuggestArgs("p1", ArgApi.error_message, RepoCosmic)
SugNovel == SuggestArgs("p9", ArgApi.error_message, RepoCosmic)
SugNoMessage == SuggestArgs(Undefined, Absent, RepoCosmic)
SugLocal == SuggestArgs(Undefined, ArgReadProp.error_message, RepoCosmic)

SuggestCatalogue == {SugCached, SugNovel, SugNoMessage, SugLocal}

\* the context handed to matchErrorPattern
SuggestMatchArgs(args) ==
    CaptureArgs(IF args.error_pattern.error_message = Absent
                THEN ArgPatternBased.error_message
                ELSE args.error_pattern.error_message,
                Absent, args.target_repo, None, 0, 2)

\* the object handed to queueForClaudeAnalysis, {error_pattern, target_repo,
\* analysis_type}, as the scheduler's helpers read it: it has no
\* error_message, stack_trace, repo_context or environment_info of its own
SuggestQueueArgs(args) == CaptureArgs(Absent, Absent, Absent, None, 0, 2)

SuggestReply(args, answer) ==
    [verb |-> "suggest_preventive_fixes", args |-> args, answer |-> answer]

suggestPreventiveFixes(args, writeOk) ==
    LET pid == args.error_pattern.pattern_id
        found == matchErrorPattern(signatureCache, SuggestMatchArgs(args))
        localMatch == found.match
        queued == SuggestQueueArgs(args)
    IN  /\ IF Cached(pid)
           THEN /\ solutionCache[pid].usage_count < MaxUsage
                /\ LET cached == AccessedSolution(solutionCache[pid], today)
                   IN  /\ solutionCache' = [solutionCache EXCEPT ![pid] = cached]
                       /\ disk' = saveSolutionToFile(disk, cached, writeOk)
                /\ reply' = SuggestReply(args,
                                [analysis_type |-> "cached_preventive_fixes",
                                 confidence |-> solutionCache[pid].confidence_score,
                                 api_cost |-> 0])
                /\ UNCHANGED <<signatureCache, clock, objs, dispatched, errorQueue,
                               lastSelect, lastFailure>>
           ELSE /\ signatureCache' = found.memo
                /\ UNCHANGED <<solutionCache, disk>>
                /\ IF localMatch.confidence > 70
                   THEN /\ reply' = SuggestReply(args,
                                        [analysis_type |-> "local_pattern_preventive_fixes",
                                         confidence |-> localMatch.confidence,
                                         api_cost |-> 0])
                        /\ UNCHANGED <<clock, objs, dispatched, errorQueue,
                                       lastSelect, lastFailure>>
                   ELSE IF QueueThrows(queued)
                   THEN /\ reply' = SuggestReply(args,
                                        [error |-> "Failed to suggest preventive fixes"])
                        /\ UNCHANGED <<clock, objs, dispatched, errorQueue,
                                       lastSelect, lastFailure>>
                   ELSE /\ QueueSet(ContextOf(queued), MaxCaptured)
                        /\ reply' = SuggestReply(args,
                                        [analysis_type |-> "queued_for_claude_preventive_analysis",
                                         queue_position |->
                                             calculateQueuePosition(errorQueue', objs',
                                                                    objs'[Len(objs')]),
                                         cost_estimate |-> objs'[Len(objs')].estimated_cost])
        /\ UNCHANGED <<today, io, task, resolved, dropped, spentToday, gatewayVars, feedbacks>>

NextSuggest ==
    \/ \E args \in SuggestCatalogue, writeOk \in BOOLEAN :
           suggestPreventiveFixes(args, writeOk)
    \/ \E args \in {ArgApi, ArgImport} : captureErrorContext(args, TRUE)
    \/ CachePut(AnalysisResult(<<PatA>>, <<>>), TRUE)

SpecSuggest == InitCapture /\ [][NextSuggest]_vars

\* C32: suggest_fixes for a pattern without cached solution and without a
\* local match above 70 queues the pattern (the queue grows by one item) and
\* answers that item's queue position and cost estimate.
C32_SuggestQueuesUnknownPattern ==
    [][\A args \in SuggestCatalogue, writeOk \in BOOLEAN :
          (/\ ~Cached(args.error_pattern.pattern_id)
           /\ BestMatchOf[SuggestMatchArgs(args)].confidence <= 70
           /\ Len(objs) < MaxCaptured
           /\ suggestPreventiveFixes(args, writeOk))
              => /\ Len(errorQueue') = Len(errorQueue) + 1
                 /\ reply'.answer.analysis_type = "queued_for_claude_preventive_analysis"
                 /\ reply'.answer.queue_position >= 1]_vars

\* ---- queue identity ----

\* C33: an enqueue of an error context whose message differs from every
\* queued one adds exactly one item to the queue and replaces none of the
\* items that are queued.
C33_EnqueueAddsDistinctItem ==
    [][\A ctx \in LaneCatalogue :
          (/\ \A o \in Allocated : objs[o].error_context.error_message # ctx.error_message
           /\ queueForClaudeAnalysis(ctx, MaxItems))
              => /\ Len(errorQueue') = Len(errorQueue) + 1
                 /\ \A i \in 1..Len(errorQueue) : errorQueue'[i] = errorQueue[i]]_vars

\* ---- the week ----

\* midnight in a week that repeats: the scheduler reads of a date only its
\* weekday (getCurrentDaySchedule, isWeekendError), so the days are counted
\* modulo 7
WeekTick ==
    /\ today' = (today + 1) % 7
    /\ spentToday' = 0
    /\ lastSelect' = NoSelect
    /\ lastFailure' = NoFailure
    /\ UNCHANGED <<serverVars, clock, errorQueue, objs, task, resolved, dropped, dispatched,
                   gatewayVars, cacheVars>>

\* a critical error, one that names docker, and a test failure of a
\* development environment
WeekCatalogue == {CtxOutage, CtxDocker, CtxTest}

InitWeek == today \in 0..6 /\ InitIdle

NextWeek ==
    \/ \E ctx \in WeekCatalogue :
           /\ \A o \in Allocated : objs[o].error_context # ctx
           /\ queueForClaudeAnalysis(ctx, WeekItems)
    \/ processQueue
    \/ startQueueProcessor
    \/ \E t \in Timers : BatchSucceeds(t)
    \/ \E t \in Timers : BatchFails(t)
    \/ WeekTick

\* the timers fire on every day of every week, every batch call returns, and
\* the days go by
SpecWeek ==
    /\ InitWeek /\ [][NextWeek]_vars
    /\ SF_vars(processQueue)
    /\ SF_vars(startQueueProcessor)
    /\ \A t \in Timers : WF_vars(BatchSucceeds(t) \/ BatchFails(t))
    /\ WF_vars(WeekTick)

\* C34: every item accepted by the queue, whatever its priority, weekday and
\* message, is eventually dispatched or dropped when the timers keep firing.
C34_EveryItemEventuallyDispatched ==
    \A o \in 1..WeekItems :
        (o \in DOMAIN objs)
            ~> (o \in DOMAIN objs /\ (dispatched[o] > 0 \/ o \in dropped))

\* ---- the cache and its files, operation by operation ----

\* One handler runs up to its `await this.saveSolutionToFile(...)`: the map is
\* updated and fs.writeJson is issued with the text of the record as it is at
\* that moment.  Other handlers run before the write has landed.
Issue(solution) ==
    [io EXCEPT !.writes = @ \cup {[file |-> solution.pattern_id,
                                   content |-> ToJson(solution)]}]

cacheSolutionBegins(pattern) ==
    /\ Cardinality(io.writes) < MaxInFlight
    /\ LET solution == NewCachedSolution(pattern, today)
       IN  /\ solutionCache' = MapPut(solutionCache, solution.pattern_id, solution)
           /\ io' = Issue(solution)
    /\ UNCHANGED <<today, signatureCache, reply, disk, feedbacks, schedVars, gatewayVars>>

getCachedSolutionBegins(pid) ==
    /\ Cardinality(io.writes) < MaxInFlight
    /\ Cached(pid)
    /\ solutionCache[pid].usage_count < MaxUsage
    /\ LET cached == AccessedSolution(solutionCache[pid], today)
       IN  /\ solutionCache' = [solutionCache EXCEPT ![pid] = cached]
           /\ io' = Issue(cached)
    /\ UNCHANGED <<today, signatureCache, reply, disk, feedbacks, schedVars, gatewayVars>>

updateSolutionEffectivenessBegins(pid, wasSuccessful) ==
    /\ Cardinality(io.writes) < MaxInFlight
    /\ Cached(pid)
    /\ feedbacks < MaxFeedback
    /\ LET old == solutionCache[pid]
           solution ==
               [old EXCEPT
                  !.success_rate = (@ * 9) \div 10
                                   + (IF wasSuccessful THEN 100 * RateUnit ELSE 0) \div 10,
                  !.confidence_score = IF wasSuccessful THEN Min(100, @ + 2)
                                       ELSE Max(50, @ - 5),
                  !.last_accessed = today]
       IN  /\ solutionCache' = [solutionCache EXCEPT ![pid] = solution]
           /\ io' = Issue(solution)
    /\ feedbacks' = feedbacks + 1
    /\ UNCHANGED <<today, signatureCache, reply, disk, schedVars, gatewayVars>>

\* one of the writes in flight reaches the file.  Writes to one file that
\* were issued without waiting for each other land in either order.
writeJsonLands(w) ==
    /\ w \in io.writes
    /\ disk' = MapPut(disk, w.file, w.content)
    /\ io' = [io EXCEPT !.writes = @ \ {w}]
    /\ UNCHANGED <<today, signatureCache, reply, solutionCache, feedbacks,
                   schedVars, gatewayVars>>

\* the loop of initializeCache, which the constructor starts and does not
\* wait for: one file of the directory listing is read and set into the map
initializeCacheReads(f) ==
    /\ f \in io.load
    /\ solutionCache' = MapPut(solutionCache, disk[f].pattern_id, disk[f])
    /\ io' = [io EXCEPT !.load = @ \ {f}]
    /\ UNCHANGED <<today, signatureCache, reply, disk, feedbacks, schedVars, gatewayVars>>

\* the process starts on an empty directory or on one that holds p1 from an
\* earlier run; the load of the directory has begun
InitRace ==
    /\ today = 1
    /\ clock = 0
    /\ errorQueue = <<>>
    /\ objs = <<>>
    /\ task = [t \in Timers |-> Idle]
    /\ resolved = {}
    /\ dropped = {}
    /\ dispatched = <<>>
    /\ lastSelect = NoSelect
    /\ lastFailure = NoFailure
    /\ spentToday = 0
    /\ usageLog = EmptyBag
    /\ usageFile = EmptyBag
    /\ recorded = EmptyBag
    /\ call = [s \in Slots |-> IdleCall]
    /\ repaid = {}
    /\ lastResult = NoResult
    /\ solutionCache = <<>>
    /\ disk \in {<<>>, MapPut(<<>>, PatA.pattern_id, ToJson(NewCachedSolution(PatA, 0)))}
    /\ feedbacks = 0
    /\ signatureCache = <<>>
    /\ reply = NoReply
    /\ io = [writes |-> {}, load |-> DOMAIN disk]

NextRace ==
    \/ cacheSolutionBegins(PatA)
    \/ getCachedSolutionBegins(PatA.pattern_id)
    \/ updateSolutionEffectivenessBegins(PatA.pattern_id, FALSE)
    \/ \E w \in io.writes : writeJsonLands(w)
    \/ \E f \in io.load : initializeCacheReads(f)

SpecRace == InitRace /\ [][NextRace]_vars

\* C35: once no write is in flight and the start-up load is over, the files
\* and the map hold the same pattern_ids with the same record for each.
C35_QuiescentStoreMatchesCache ==
    (io.writes = {} /\ io.load = {})
        => /\ DOMAIN disk = DOMAIN solutionCache
           /\ \A pid \in DOMAIN disk : disk[pid] = ToJson(solutionCache[pid])

\* ---- the classifier's memo ----

\* the (message, stack, context) triple of a capture
TripleOf(args) == <<args.error_message, args.stack_trace, args.repo_context>>

\* C36: the match answered for a context equals in pattern_id, pattern_type,
\* confidence and suggested_actions what the evaluation without memo gives
\* for that context's triple, and no memo entry is the entry of two
\* different triples.
C36_MemoTransparent ==
    /\ reply.verb = "capture_error_context" =>
           LET fresh == BestMatch(1, Unmatched, reply.args)
           IN  /\ reply.match.pattern_id = fresh.pattern_id
               /\ reply.match.pattern_type = fresh.pattern_type
               /\ reply.match.confidence = fresh.confidence
               /\ reply.match.suggested_actions = fresh.suggested_actions
    /\ \A a, b \in MatchCatalogue :
           (/\ TripleOf(a) # TripleOf(b)
            /\ createErrorSignature(a) \in DOMAIN signatureCache)
               => createErrorSignature(a) # createErrorSignature(b)


\* ------------------------------------------------------------ the taxonomy
\* A pattern as a caller submits it to update_taxonomy or names it in
\* record_outcome: any of the fields the two generatePatternId functions read
\* may be left out.
SubmittedPattern(pid, type, pattern_type, error_message, description, root_cause, repo_context, context) ==
    [pattern_id |-> pid, type |-> type, pattern_type |-> pattern_type,
     error_message |-> error_message, description |-> description,
     root_cause |-> root_cause, insight |-> Undefined,
     repo_context |-> repo_context, context |-> context,
     applicable_repos |-> Undefined,
     fix_template |-> FixString("do x"), confidence |-> 80]

\* a || b on two texts
OrElse(a, b) == IF a # Undefined /\ a # "" THEN a ELSE b

\* the server's generatePatternId: the digest of type, message and context as
\* the server reads them
DebugIntelligenceMCPServer_generatePatternId(pattern) ==
    ErrorIntelligenceCache_generatePatternId(
        [type |-> OrElse(pattern.type, pattern.pattern_type),
         message |-> OrElse(pattern.error_message, pattern.description),
         context |-> OrElse(pattern.repo_context, pattern.context)])

\* the cache's generatePatternId on a submitted pattern: the same digest of the
\* fields as the cache reads them
generatePatternId(pattern) ==
    ErrorIntelligenceCache_generatePatternId(
        [type |-> OrElse(pattern.pattern_type, pattern.type),
         message |-> OrElse(pattern.root_cause,
                            OrElse(pattern.insight, pattern.error_message)),
         context |-> OrElse(pattern.repo_context, pattern.applicable_repos)])

\* the identifier the server looks a pattern up by
LookupId(pattern) ==
    OrElse(pattern.pattern_id, DebugIntelligenceMCPServer_generatePatternId(pattern))

\* the pattern as the first loop of cacheAnalysisResults reads it
StoredPattern(pattern) ==
    DiscoveredPattern(OrElse(pattern.pattern_id, generatePatternId(pattern)),
                      pattern.fix_template, pattern.confidence)

TaxonomyReply(pattern, added, updated) ==
    [verb |-> "update_error_taxonomy", args |-> pattern,
     patterns_added |-> added, patterns_updated |-> updated]

\* update_taxonomy with one new pattern: a hit counts an access and a success,
\* a miss caches the pattern; every write may fail
updateErrorTaxonomy(pattern, writeOk) ==
    LET patternId == LookupId(pattern)
    IN  IF Cached(patternId)
        THEN /\ solutionCache[patternId].usage_count < MaxUsage
             /\ feedbacks < MaxFeedback
             /\ LET existingPattern == AccessedSolution(solutionCache[patternId], today)
                    solution ==
                        [existingPattern EXCEPT
                           !.success_rate = (@ * 9) \div 10 + (100 * RateUnit) \div 10,
                           !.confidence_score = Min(100, @ + 2),
                           !.last_accessed = today]
                IN  /\ solutionCache' = [solutionCache EXCEPT ![patternId] = solution]
                    /\ disk' = saveSolutionToFile(disk, solution, writeOk)
             /\ feedbacks' = feedbacks + 1
             /\ reply' = TaxonomyReply(pattern, 0, 1)
             /\ UNCHANGED <<today, signatureCache, io, schedVars, gatewayVars>>
        ELSE /\ LET store == cacheAnalysisResults(
                                 [memory |-> solutionCache, files |-> disk],
                                 AnalysisResult(<<StoredPattern(pattern)>>, <<>>),
                                 today, writeOk)
                IN  solutionCache' = store.memory /\ disk' = store.files
             /\ reply' = TaxonomyReply(pattern, 1, 0)
             /\ UNCHANGED <<today, signatureCache, io, feedbacks, schedVars, gatewayVars>>

\* record_outcome: the pattern's entry, when the cache has one under the
\* server's identifier, takes the outcome; otherwise nothing is updated
trackFixEffectiveness(fix_applied, wasSuccessful, writeOk) ==
    LET patternId == LookupId(fix_applied)
    IN  /\ reply' = [verb |-> "track_fix_effectiveness", args |-> fix_applied,
                     pattern_id |-> patternId, found |-> Cached(patternId)]
        /\ IF Cached(patternId)
           THEN /\ feedbacks < MaxFeedback
                /\ LET old == solutionCache[patternId]
                       solution ==
                           [old EXCEPT
                              !.success_rate =
                                  (@ * 9) \div 10
                                  + (IF wasSuccessful THEN 100 * RateUnit ELSE 0) \div 10,
                              !.confidence_score = IF wasSuccessful THEN Min(100, @ + 2)
                                                   ELSE Max(50, @ - 5),
                              !.last_accessed = today]
                   IN  /\ solutionCache' = [solutionCache EXCEPT ![patternId] = solution]
                       /\ disk' = saveSolutionToFile(disk, solution, writeOk)
                /\ feedbacks' = feedbacks + 1
           ELSE UNCHANGED <<solutionCache, disk, feedbacks>>
        /\ UNCHANGED <<today, signatureCache, io, schedVars, gatewayVars>>

\* a pattern with an explicit identifier
TaxNamed ==
    SubmittedPattern("p1", "network", Undefined, "timeout", Undefined, Undefined,
                     "cosmic", Undefined)
\* a pattern described by type, error_message and repo_context only
TaxPlain ==
    SubmittedPattern(Undefined, "network", Undefined, "timeout", Undefined, Undefined,
                     "cosmic", Undefined)
\* a pattern in the shape the analysis service returns: pattern_type and
\* root_cause
TaxAnalysed ==
    SubmittedPattern(Undefined, Undefined, "network", Undefined, Undefined,
                     "dns cache", Undefined, Undefined)
TaxonomyCatalogue == {TaxNamed, TaxPlain, TaxAnalysed}

InitTaxonomy == today = 0 /\ InitIdle

\* Patterns are submitted and rated within one day; the write of an outcome
\* succeeds here, the write of a submission may fail.
NextTaxonomy ==
    \/ \E pattern \in TaxonomyCatalogue, writeOk \in BOOLEAN :
           updateErrorTaxonomy(pattern, writeOk)
    \/ \E pattern \in TaxonomyCatalogue, ok \in BOOLEAN :
           trackFixEffectiveness(pattern, ok, TRUE)

SpecTaxonomy == InitTaxonomy /\ [][NextTaxonomy]_vars

\* C37: a pattern submitted without a pattern_id is looked up by update_taxonomy
\* and record_outcome under the identifier put_batch stores it under: once
\* update_taxonomy has added it, the next update_taxonomy of the same pattern
\* reports it as updated, and record_outcome finds its entry.
C37_SecondSubmissionUpdates ==
    [][\A pattern \in TaxonomyCatalogue, writeOk \in BOOLEAN :
         (/\ pattern.pattern_id = Undefined
          /\ reply.verb = "update_error_taxonomy"
          /\ reply.args = pattern
          /\ reply.patterns_added = 1
          /\ updateErrorTaxonomy(pattern, writeOk))
             => /\ LookupId(pattern) = StoredPattern(pattern).pattern_id
                /\ reply'.patterns_updated = 1
                /\ reply'.patterns_added = 0
      ]_vars

\* ------------------------------------------------------------ the library
\* Each pattern's own context is captured, and the service's answer for one
\* of them is cached.
NextLibrary ==
    \/ \E args \in LibraryCatalogue, writeOk \in BOOLEAN :
           captureErrorContext(args, writeOk)
    \/ CachePut(AnalysisResult(<<PatReadProp>>, <<>>), TRUE)

SpecLibrary == InitCapture /\ [][NextLibrary]_vars

\* C38: every pattern of the library is reachable: the match of the context
\* that matches its signature and aligns every hint its type admits returns
\* that pattern, with the confidence 70 + 20 + 10 per aligned hint meeting its
\* confidence_threshold.
C38_EveryPatternReachable ==
    \A i \in 1..Len(patterns) :
        (reply.verb = "capture_error_context" /\ reply.args = ArgForPattern[i])
            => /\ reply.match.pattern_id = patterns[i].id
               /\ reply.match.confidence >= patterns[i].confidence_threshold

\* C39: for every stored confidence_score in 0..100, those below 50 that
\* put_batch inserted included, update_effectiveness with a failure outcome
\* never increases the entry's confidence_score and with a success outcome
\* never decreases it, and the success_rate stays within 0..100.
C39_FeedbackMonotone ==
    [][\A pid \in PatternIds, wasSuccessful \in BOOLEAN, writeOk \in BOOLEAN :
         (/\ Cached(pid)
          /\ solutionCache[pid].confidence_score \in 0..100
          /\ updateSolutionEffectiveness(pid, wasSuccessful, writeOk))
             => /\ wasSuccessful
                       => solutionCache'[pid].confidence_score
                              >= solutionCache[pid].confidence_score
                /\ ~wasSuccessful
                       => solutionCache'[pid].confidence_score
                              <= solutionCache[pid].confidence_score
                /\ solutionCache'[pid].success_rate \in 0..(100 * RateUnit)
      ]_vars

====
